---- MODULE Spec2Model ----
(***************************************************************************)
(* Human behaviour simulation engine of the job-search bot:                *)
(*   EnhancedHumanMouse (src/src/automation/EnhancedHumanMouse.js) and     *)
(*   HumanTyping        (src/unnamed/part_002).                            *)
(*                                                                         *)
(* Numbers.  JavaScript numbers are modelled as exact rationals            *)
(* [n |-> numerator, d |-> denominator] with d > 0, or as the value NaN.   *)
(* NaN propagates through arithmetic and makes every comparison false, as  *)
(* in IEEE-754.  Fatigue (a number in [0,1]) is kept in thousandths.       *)
(* Math.random() is a tape of draws k/RandDen, k \in 0..RandDen-1, read    *)
(* cyclically: every call consumes the next draw.                          *)
(* Time.  Date.now() - last...Time is kept as an age in milliseconds that  *)
(* saturates one millisecond above the threshold it is compared with.      *)
(***************************************************************************)
EXTENDS Integers, Sequences, FiniteSets, TLC

VARIABLES
    mouseFatigue,     \* EnhancedHumanMouse.fatigue, in thousandths
    mouseIdle,        \* Date.now() - EnhancedHumanMouse.lastMovementTime, ms
    typingFatigue,    \* HumanTyping.fatigue, in thousandths
    typingIdle,       \* Date.now() - HumanTyping.lastTypingTime, ms
    movementHistory,  \* EnhancedHumanMouse.movementHistory
    rndTape,          \* the draws Math.random() returns, read cyclically
    rndPos,           \* number of draws consumed so far, modulo the tape
    pathArgs,         \* arguments of a generateAdvancedBezierPath call
    pathPoints,       \* the path the call returned
    pathDone,         \* the call has returned
    execArgs,         \* arguments of an executeMovementPath call
    execIndex,        \* its loop variable i
    execDelay,        \* the delay it computed for the step before i
    currentWPM,       \* HumanTyping.currentWPM
    typingHistory,    \* HumanTyping.typingHistory
    typeArgs,         \* arguments of a typeText call
    typePattern,      \* the pattern generateTypingPattern returned to it
    typePc,           \* where the call is: "idle", "executing" or "done"
    typeIndex,        \* the loop variable i of executeTypingPattern
    stepLog,          \* events and suspensions of the last iteration
    keyEvents,        \* key events issued since the call began
    botActions,       \* LinkedInJobBot: decisions executed by the main loop
    botHandler,       \* the action handler executeDecision is awaiting
    botPc,            \* the next engine call of that handler
    inFlight,         \* engine operations called and not yet returned
    primLog,          \* the operations of the input primitives issued so far
    startPc,          \* where start() is: the await it is suspended at
    startResult,      \* "pending", "resolved" or "rejected"
    isRunning,        \* LinkedInJobBot.isRunning
    stopSignal,       \* stop() was called or an emergency_stop was executed
    sessionClock,     \* Date.now() - sessionStartTime, in loop intervals
    applicationsCount, \* LinkedInJobBot.applicationsCount
    consecutiveErrors, \* LinkedInJobBot.consecutiveErrors
    totalActions,     \* metrics.totalActions
    successfulActions, \* metrics.successfulActions
    llmCalls,         \* metrics.llmCalls
    llmRequests,      \* calls of apiService.getNextAction so far
    decision,         \* the decision getLLMDecision returned last
    mouseCalls,       \* the engine operations the decision's handler called
    cleanups,         \* calls of cleanup() so far
    opCall,           \* EnhancedHumanMouse: the operation called last
    opPlan,           \* the events the operation has still to go through
    opIndex,          \* how many of them it has gone through
    opStatus,         \* "idle", "running", "returned" or "failed"
    opFailed,         \* an input primitive of the operation has thrown
    opCount,          \* operations called so far
    pointer,          \* robot.getMousePos()
    buttonsDown       \* the mouse buttons held down

engineVars == <<mouseFatigue, mouseIdle, typingFatigue, typingIdle, currentWPM>>
rndVars == <<rndTape, rndPos>>
pathVars == <<movementHistory, pathArgs, pathPoints, pathDone>>
execVars == <<execArgs, execIndex, execDelay>>
typeVars ==
    <<typingHistory, typeArgs, typePattern, typePc, typeIndex, stepLog, keyEvents>>
botVars == <<botActions, botHandler, botPc, inFlight, primLog>>
lifeVars ==
    <<startPc, startResult, isRunning, stopSignal, sessionClock, applicationsCount,
      consecutiveErrors, totalActions, successfulActions, llmCalls, llmRequests,
      decision, mouseCalls, cleanups>>
opVars ==
    <<opCall, opPlan, opIndex, opStatus, opFailed, opCount, pointer, buttonsDown>>
vars == <<engineVars, rndVars, pathVars, execVars, typeVars, botVars, lifeVars, opVars>>
notEngine == <<rndVars, pathVars, execVars, typeVars, botVars, lifeVars, opVars>>

----------------------------------------------------------------------------
(* Program constants *)

\* Resolution of the model's numbers
RandDen == 4
TapeLen == 3
FixDen == 1000
SqrtRes == 10
\* Longest path executeMovementPath is given
MaxPathLen == 6

FatigueOne == 1000
MouseRestMs == 30000
MouseFatigueStep == 20
MouseRestStep == 100
TypingRestMs == 60000
TypingFatigueStep == 5
TypingRestStep == 100
TypingHistoryCap == 20

Max(a, b) == IF a >= b THEN a ELSE b
Min(a, b) == IF a <= b THEN a ELSE b
Abs(a) == IF a < 0 THEN -a ELSE a
Sgn(a) == IF a < 0 THEN -1 ELSE IF a > 0 THEN 1 ELSE 0

----------------------------------------------------------------------------
(* JavaScript numbers: exact rationals n/d in lowest terms with d > 0;     *)
(* 0/0 is NaN, 1/0 is Infinity and -1/0 is -Infinity.                      *)

RECURSIVE Gcd(_, _)
Gcd(a, b) == IF b = 0 THEN a ELSE Gcd(b, a % b)

NaN == [n |-> 0, d |-> 0]
Num(n, d) ==
    IF d = 0 THEN [n |-> Sgn(n), d |-> 0]
    ELSE LET g == Gcd(Abs(n), Abs(d))
             s == IF d < 0 THEN -1 ELSE 1
         IN  [n |-> (s * n) \div g, d |-> (s * d) \div g]
Int2Num(i) == [n |-> i, d |-> 1]
IsNaN(v) == v.d = 0 /\ v.n = 0
IsFinite(v) == v.d # 0

\* a + b
Add(a, b) ==
    IF IsNaN(a) \/ IsNaN(b) THEN NaN
    ELSE IF a.d = 0 /\ b.d = 0 THEN (IF a.n = b.n THEN a ELSE NaN)
    ELSE IF a.d = 0 THEN a
    ELSE IF b.d = 0 THEN b
    ELSE LET g == Gcd(a.d, b.d)
         IN  Num(a.n * (b.d \div g) + b.n * (a.d \div g), (a.d \div g) * b.d)
Neg(a) == [n |-> -a.n, d |-> a.d]
Sub(a, b) == Add(a, Neg(b))
\* a * b
Mul(a, b) ==
    IF a.d = 0 \/ b.d = 0 THEN Num(Sgn(a.n) * Sgn(b.n), 0)
    ELSE LET g1 == Gcd(Abs(a.n), b.d)
             g2 == Gcd(Abs(b.n), a.d)
         IN  Num((a.n \div g1) * (b.n \div g2), (a.d \div g2) * (b.d \div g1))
\* a / b  (x/0 is +-Infinity, 0/0 is NaN; the sign of a zero is not kept)
Div(a, b) ==
    IF IsNaN(b) THEN NaN
    ELSE IF b.d = 0 THEN Mul(a, Int2Num(0))
    ELSE Mul(a, Num(b.d, b.n))
\* a < b, a > b, a <= b: false when an operand is NaN
Lt(a, b) ==
    /\ ~IsNaN(a)
    /\ ~IsNaN(b)
    /\ IF a.d = 0 /\ b.d = 0 THEN a.n < b.n ELSE a.n * b.d < b.n * a.d
Gt(a, b) == Lt(b, a)
Le(a, b) == ~IsNaN(a) /\ ~IsNaN(b) /\ ~Lt(b, a)
Ge(a, b) == Le(b, a)
\* Math.max, Math.min, Math.floor, Math.round
MathMax(a, b) == IF IsNaN(a) \/ IsNaN(b) THEN NaN ELSE IF Lt(a, b) THEN b ELSE a
MathMin(a, b) == IF IsNaN(a) \/ IsNaN(b) THEN NaN ELSE IF Lt(b, a) THEN b ELSE a
MathFloor(a) == IF a.d = 0 THEN a ELSE [n |-> a.n \div a.d, d |-> 1]
MathRound(a) == MathFloor(Add(a, Num(1, 2)))
\* a rounded down to a multiple of 1/FixDen: the precision the path geometry
\* is computed with (products and quotients are rounded, sums are exact)
Fix(a) ==
    IF a.d = 0 THEN a
    ELSE Num((a.n \div a.d) * FixDen + ((a.n % a.d) * FixDen) \div a.d, FixDen)
\* a finite number in units of 1/FixDen, rounded down
Scaled(a) == (a.n \div a.d) * FixDen + ((a.n % a.d) * FixDen) \div a.d
FMul(a, b) == Fix(Mul(a, b))
FDiv(a, b) == Fix(Div(a, b))
RECURSIVE IsqrtIn(_, _, _)
IsqrtIn(n, lo, hi) ==
    IF lo >= hi THEN lo
    ELSE LET mid == (lo + hi + 1) \div 2
         IN  IF mid * mid <= n THEN IsqrtIn(n, mid, hi) ELSE IsqrtIn(n, lo, mid - 1)
\* Math.sqrt of a number >= 0, rounded down to a multiple of 1/SqrtRes
MathSqrt(a) ==
    IF a.d = 0 THEN a
    ELSE LET m == (a.n * SqrtRes * SqrtRes) \div a.d
         IN  Num(IsqrtIn(m, 0, Min(m, 46340)), SqrtRes)

\* The j-th Math.random() call from now on (j = 0 is the next call)
Rand(j) == Num(rndTape[((rndPos + j) % Len(rndTape)) + 1], RandDen)
Tapes == [1..TapeLen -> 0..(RandDen - 1)]

----------------------------------------------------------------------------
(* Configuration (BotConfig defaults).  A key an object does not have reads *)
(* as undefined: NaN in arithmetic, false in a condition.                   *)

\* defaults.mouse.movement
MouseMovementDefaults ==
    [baseSpeed |-> Int2Num(8), acceleration |-> Num(12, 10),
     jitterIntensity |-> Num(15, 10), overshootProbability |-> Num(15, 100),
     overshootDistance |-> Int2Num(10), humanHesitation |-> TRUE,
     hesitationChance |-> Num(1, 10)]
\* defaults.mouse.bezier
MouseBezierDefaults ==
    [curvature |-> Num(3, 10), randomness |-> Num(2, 10),
     controlPointDistance |-> Int2Num(50), adaptiveSteps |-> TRUE,
     minSteps |-> Int2Num(10), maxSteps |-> Int2Num(100)]
\* defaults.typing
TypingDefaults ==
    [wpm |-> Int2Num(45), wpmVariation |-> Int2Num(10), errorRate |-> Num(2, 100),
     correctionDelay |-> [min |-> 500, max |-> 1500],
     thinkingPauses |-> [enabled |-> TRUE, probability |-> Num(5, 100),
                         duration |-> [min |-> 500, max |-> 2000]],
     capitalLetterDelay |-> Num(13, 10), numberDelay |-> Num(12, 10),
     symbolDelay |-> Num(15, 10)]

\* { ...base, ...over }
Spread(base, over) == over @@ base
\* config.key used as a number, and used as a condition (a boolean key)
NumOf(config, key) == IF key \in DOMAIN config THEN config[key] ELSE NaN
Truthy(config, key) == key \in DOMAIN config /\ config[key]

----------------------------------------------------------------------------
(* MotionPlanner: EnhancedHumanMouse.generateAdvancedBezierPath             *)

\* EnhancedHumanMouse.generateJitter, r the Math.random() draw
generateJitter(intensity, r) ==
    Mul(Mul(Sub(r, Num(1, 2)), intensity), Int2Num(2))

\* EnhancedHumanMouse.calculateHistoryInfluence
calculateHistoryInfluence ==
    IF Len(movementHistory) < 2 THEN [x |-> Int2Num(0), y |-> Int2Num(0)]
    ELSE LET recent == SubSeq(movementHistory,
                              Max(1, Len(movementHistory) - 2),
                              Len(movementHistory))
             RECURSIVE Sum(_, _)
             Sum(i, axis) ==
                 IF i > Len(recent) THEN Int2Num(0)
                 ELSE Add(Sub(IF axis = "x" THEN recent[i].endX ELSE recent[i].endY,
                              IF axis = "x" THEN recent[i - 1].endX
                              ELSE recent[i - 1].endY),
                          Sum(i + 1, axis))
         IN  [x |-> FMul(FDiv(Sum(2, "x"), Int2Num(Len(recent))), Num(1, 10)),
              y |-> FMul(FDiv(Sum(2, "y"), Int2Num(Len(recent))), Num(1, 10))]

\* EnhancedHumanMouse.calculateSmartRandomness
calculateSmartRandomness(distance, config) ==
    LET baseRandomness == FMul(distance, NumOf(config, "randomness"))
        distanceFactor == MathMin(Int2Num(1), FDiv(distance, Int2Num(200)))
        fatigueFactor == Add(Int2Num(1), Mul(Num(mouseFatigue, FatigueOne), Num(1, 2)))
        both == FMul(FMul(baseRandomness, distanceFactor), fatigueFactor)
    IN  [x |-> both, y |-> both]

\* EnhancedHumanMouse.generateSmartControlPoints; r is the index of its first
\* Math.random() draw (it makes six)
generateSmartControlPoints(startX, startY, endX, endY, distance, config, r) ==
    LET dx == Sub(endX, startX)
        dy == Sub(endY, startY)
        baseControlDistance ==
            MathMax(NumOf(config, "controlPointDistance"),
                    FMul(distance, NumOf(config, "curvature")))
        perpX == FDiv(Neg(dy), distance)
        perpY == FDiv(dx, distance)
        historyInfluence == calculateHistoryInfluence
        smartRandomness == calculateSmartRandomness(distance, config)
        cp1Offset == FMul(baseControlDistance,
                          Add(Num(8, 10), Mul(Rand(r), Num(4, 10))))
        cp1RandomX == FMul(Sub(Rand(r + 1), Num(1, 2)), smartRandomness.x)
        cp1RandomY == FMul(Sub(Rand(r + 2), Num(1, 2)), smartRandomness.y)
        cp2Offset == FMul(baseControlDistance,
                          Add(Num(6, 10), Mul(Rand(r + 3), Num(6, 10))))
        cp2RandomX == FMul(Sub(Rand(r + 4), Num(1, 2)), smartRandomness.x)
        cp2RandomY == FMul(Sub(Rand(r + 5), Num(1, 2)), smartRandomness.y)
        Along(start, d, part, perp, offset, random, history, weight) ==
            Add(Add(Add(Add(start, FMul(d, part)), FMul(perp, offset)),
                    random), FMul(history, weight))
    IN  [cp1 |-> [x |-> Along(startX, dx, Num(25, 100), perpX, cp1Offset,
                              cp1RandomX, historyInfluence.x, Num(3, 10)),
                  y |-> Along(startY, dy, Num(25, 100), perpY, cp1Offset,
                              cp1RandomY, historyInfluence.y, Num(3, 10))],
         cp2 |-> [x |-> Along(startX, dx, Num(75, 100), perpX, cp2Offset,
                              cp2RandomX, historyInfluence.x, Num(5, 10)),
                  y |-> Along(startY, dy, Num(75, 100), perpY, cp2Offset,
                              cp2RandomY, historyInfluence.y, Num(5, 10))]]

\* EnhancedHumanMouse.calculateCubicBezierPoint.  The weights and the sums
\* are computed in units of 1/FixDen; an operand that is not finite makes the
\* coordinate NaN (0 * NaN and 0 * Infinity are NaN)
calculateCubicBezierPoint(t, p0, p1, p2, p3) ==
    LET T == Scaled(t)
        u == FixDen - T
        tt == (T * T) \div FixDen
        uu == (u * u) \div FixDen
        uuu == (uu * u) \div FixDen
        ttt == (tt * T) \div FixDen
        uut3 == 3 * ((uu * T) \div FixDen)
        utt3 == 3 * ((u * tt) \div FixDen)
        At(a, b, c, d) ==
            IF IsFinite(t) /\ IsFinite(a) /\ IsFinite(b) /\ IsFinite(c) /\ IsFinite(d)
            THEN Num((uuu * Scaled(a) + uut3 * Scaled(b) + utt3 * Scaled(c)
                      + ttt * Scaled(d)) \div FixDen, FixDen)
            ELSE NaN
    IN  [x |-> At(p0.x, p1.x, p2.x, p3.x), y |-> At(p0.y, p1.y, p2.y, p3.y)]

\* The number of steps generateAdvancedBezierPath computes (lines 59-66);
\* r is the index of its first Math.random() draw
pathSteps(distance, config, r) ==
    IF Truthy(config, "adaptiveSteps")
    THEN Add(MathMax(NumOf(config, "minSteps"),
                     MathMin(NumOf(config, "maxSteps"),
                             MathFloor(Div(distance, Int2Num(5))))),
             Sub(MathFloor(Mul(Rand(r), Int2Num(10))), Int2Num(5)))
    ELSE MathFloor(Div(distance, Int2Num(5)))

\* EnhancedHumanMouse.generateAdvancedBezierPath: the points it returns; r is
\* the index of its first Math.random() draw
generateAdvancedBezierPath(startX, startY, endX, endY, config, r) ==
    LET dx == Sub(endX, startX)
        dy == Sub(endY, startY)
        distance == MathSqrt(Add(Mul(dx, dx), Mul(dy, dy)))
        steps == pathSteps(distance, config, r)
        r1 == IF Truthy(config, "adaptiveSteps") THEN r + 1 ELSE r
        controlPoints ==
            generateSmartControlPoints(startX, startY, endX, endY, distance, config, r1)
        \* for (i = 0; i <= steps; i++): no iteration when steps is NaN or < 0
        count == IF IsFinite(steps) /\ steps.n >= 0 THEN steps.n + 1 ELSE 0
        Point(i) ==
            LET t == FDiv(Int2Num(i), steps)
                point == calculateCubicBezierPoint(
                             t, [x |-> startX, y |-> startY],
                             controlPoints.cp1, controlPoints.cp2,
                             [x |-> endX, y |-> endY])
            IN  [x |-> Add(point.x, generateJitter(NumOf(config, "jitterIntensity"),
                                                    Rand(r1 + 6 + 2 * i))),
                 y |-> Add(point.y, generateJitter(NumOf(config, "jitterIntensity"),
                                                    Rand(r1 + 6 + 2 * i + 1)))]
    IN  [i \in 1..count |-> Point(i - 1)]

\* Calls of generateAdvancedBezierPath: from (100,100) to a target at
\* distance 0, 2, 5, 12, 40 or 500, with the options the caller merges over the
\* defaults
PathStart == [x |-> Int2Num(100), y |-> Int2Num(100)]
PathTarget(x, y) == [x |-> Int2Num(x), y |-> Int2Num(y)]
NearTargets ==
    {PathTarget(100, 100), PathTarget(102, 100), PathTarget(103, 104),
     PathTarget(100, 112), PathTarget(124, 132)}
FarTarget == PathTarget(600, 100)
PathOptions ==
    {[adaptiveSteps |-> TRUE], [adaptiveSteps |-> FALSE],
     [adaptiveSteps |-> TRUE, minSteps |-> Int2Num(2), maxSteps |-> Int2Num(3)],
     [adaptiveSteps |-> FALSE, minSteps |-> Int2Num(2), maxSteps |-> Int2Num(3)]}
PathCalls ==
    (NearTargets \X PathOptions)
        \cup {<<FarTarget, [adaptiveSteps |-> TRUE]>>,
              <<FarTarget, [adaptiveSteps |-> FALSE]>>}
\* Movement histories: none, and two completed moves
MovementRecord(sx, sy, ex, ey) ==
    [startX |-> Int2Num(sx), startY |-> Int2Num(sy),
     endX |-> Int2Num(ex), endY |-> Int2Num(ey)]
PathHistories ==
    {<< >>, <<MovementRecord(0, 0, 300, 200), MovementRecord(300, 200, 100, 100)>>}

NoCall == [called |-> FALSE]

\* The bot's main loop has not started
BotIdle ==
    /\ botActions = 0
    /\ botHandler = "none"
    /\ botPc = 0
    /\ inFlight = {}
    /\ primLog = << >>
    /\ startPc = "new"
    /\ startResult = "pending"
    /\ isRunning = FALSE
    /\ stopSignal = FALSE
    /\ sessionClock = 0
    /\ applicationsCount = 0
    /\ consecutiveErrors = 0
    /\ totalActions = 0
    /\ successfulActions = 0
    /\ llmCalls = 0
    /\ llmRequests = 0
    /\ decision = NoCall
    /\ mouseCalls = << >>
    /\ cleanups = 0

\* No operation of the mouse engine has been called; the pointer is where
\* the constructor found it
MouseIdle ==
    /\ opCall = NoCall
    /\ opPlan = << >>
    /\ opIndex = 0
    /\ opStatus = "idle"
    /\ opFailed = FALSE
    /\ opCount = 0
    /\ pointer = PathStart
    /\ buttonsDown = {}

InitPath ==
    /\ mouseFatigue \in {0, FatigueOne}
    /\ mouseIdle = 0
    /\ typingFatigue = 0
    /\ typingIdle = 0
    /\ currentWPM = TypingDefaults.wpm
    /\ movementHistory \in PathHistories
    /\ rndTape \in Tapes
    /\ rndPos = 0
    /\ \E call \in PathCalls :
           pathArgs = [called |-> TRUE,
                       startX |-> PathStart.x, startY |-> PathStart.y,
                       endX |-> call[1].x, endY |-> call[1].y,
                       config |-> Spread(Spread(MouseMovementDefaults,
                                                MouseBezierDefaults), call[2])]
    /\ pathPoints = << >>
    /\ pathDone = FALSE
    /\ execArgs = NoCall
    /\ execIndex = 0
    /\ execDelay = Int2Num(0)
    /\ typingHistory = << >>
    /\ typeArgs = NoCall
    /\ typePattern = << >>
    /\ typePc = "idle"
    /\ typeIndex = 0
    /\ stepLog = << >>
    /\ keyEvents = << >>
    /\ BotIdle
    /\ MouseIdle

\* The call returns
GeneratePath ==
    /\ pathArgs.called
    /\ ~pathDone
    /\ pathPoints' = generateAdvancedBezierPath(
                         pathArgs.startX, pathArgs.startY,
                         pathArgs.endX, pathArgs.endY, pathArgs.config, 0)
    /\ pathDone' = TRUE
    /\ rndPos' = (rndPos + (IF Truthy(pathArgs.config, "adaptiveSteps") THEN 1 ELSE 0)
                         + 6 + 2 * Len(pathPoints')) % Len(rndTape)
    /\ UNCHANGED <<engineVars, movementHistory, rndTape, pathArgs, execVars, typeVars,
                   botVars, lifeVars, opVars>>

NextPath == GeneratePath

SpecPath == InitPath /\ [][NextPath]_vars

----------------------------------------------------------------------------
(* TemporalModel: EnhancedHumanMouse.calculateHumanDelay, as                *)
(* executeMovementPath calls it for every point of a path                   *)

\* The speed multiplier of calculateHumanDelay (lines 215-227); r is the
\* Math.random() draw the middle phase makes
speedMultiplierOf(progress, r) ==
    IF Lt(progress, Num(2, 10))
    THEN Add(Num(3, 10), Mul(Div(progress, Num(2, 10)), Num(7, 10)))
    ELSE IF Gt(progress, Num(8, 10))
    THEN Sub(Int2Num(1), Mul(Div(Sub(progress, Num(8, 10)), Num(2, 10)), Num(6, 10)))
    ELSE Add(Num(8, 10), Mul(r, Num(4, 10)))

\* Whether calculateHumanDelay draws for the middle phase
inMiddlePhase(progress) == ~Lt(progress, Num(2, 10)) /\ ~Gt(progress, Num(8, 10))

\* Faulty variant of calculateHumanDelay: the result is not floored at 1
calculateHumanDelayNoFloor(step, totalSteps, config, progress, r) ==
    LET r1 == IF inMiddlePhase(progress) THEN r + 1 ELSE r
    IN  MathFloor(Mul(Mul(Mul(NumOf(config, "baseSpeed"),
                              Mul(speedMultiplierOf(progress, Rand(r)),
                                  NumOf(config, "acceleration"))),
                          Add(Int2Num(1), Mul(Num(mouseFatigue, FatigueOne), Num(3, 10)))),
                      Add(Num(7, 10), Mul(Rand(r1), Num(6, 10)))))

\* EnhancedHumanMouse.calculateHumanDelay; r is the index of its first
\* Math.random() draw
calculateHumanDelay(step, totalSteps, config, progress, r) ==
    LET baseDelay == NumOf(config, "baseSpeed")
        speedMultiplier ==
            Mul(speedMultiplierOf(progress, Rand(r)), NumOf(config, "acceleration"))
        r1 == IF inMiddlePhase(progress) THEN r + 1 ELSE r
        fatigueMultiplier ==
            Add(Int2Num(1), Mul(Num(mouseFatigue, FatigueOne), Num(3, 10)))
        randomVariation == Add(Num(7, 10), Mul(Rand(r1), Num(6, 10)))
    IN  MathMax(Int2Num(1),
                MathFloor(Mul(Mul(Mul(baseDelay, speedMultiplier), fatigueMultiplier),
                              randomVariation)))

\* Calls of executeMovementPath: a path of 1..MaxPathLen points, and the
\* movement configuration with a base speed and an acceleration
ExecSpeeds == {Int2Num(1), Int2Num(8)}
ExecAccelerations == {Num(1, 2), Num(12, 10)}

InitExec ==
    /\ mouseFatigue \in {0, FatigueOne}
    /\ mouseIdle = 0
    /\ typingFatigue = 0
    /\ typingIdle = 0
    /\ currentWPM = TypingDefaults.wpm
    /\ movementHistory = << >>
    /\ rndTape \in Tapes
    /\ rndPos = 0
    /\ pathArgs = NoCall
    /\ pathPoints = << >>
    /\ pathDone = FALSE
    /\ \E length \in 1..MaxPathLen, speed \in ExecSpeeds, acc \in ExecAccelerations :
           execArgs = [called |-> TRUE, length |-> length,
                       config |-> Spread(MouseMovementDefaults,
                                         [baseSpeed |-> speed, acceleration |-> acc])]
    /\ execIndex = 0
    /\ execDelay = Int2Num(0)
    /\ typingHistory = << >>
    /\ typeArgs = NoCall
    /\ typePattern = << >>
    /\ typePc = "idle"
    /\ typeIndex = 0
    /\ stepLog = << >>
    /\ keyEvents = << >>
    /\ BotIdle
    /\ MouseIdle

\* One iteration of executeMovementPath's loop: the pointer moves to point
\* i and the delay to sleep is computed
ExecuteMovementStep ==
    /\ execArgs.called
    /\ execIndex < execArgs.length
    /\ LET progress == Div(Int2Num(execIndex), Int2Num(execArgs.length - 1))
       IN  /\ execDelay' = calculateHumanDelay(execIndex, execArgs.length,
                                               execArgs.config, progress, 0)
           /\ rndPos' = (rndPos + (IF inMiddlePhase(progress) THEN 2 ELSE 1))
                            % Len(rndTape)
    /\ execIndex' = execIndex + 1
    /\ UNCHANGED <<engineVars, rndTape, pathVars, execArgs, typeVars, botVars, lifeVars, opVars>>

NextExec == ExecuteMovementStep

SpecExec == InitExec /\ [][NextExec]_vars

----------------------------------------------------------------------------
(* TypingPlanner and ErrorModel: HumanTyping (src/unnamed/part_002).        *)
(* A character is a string of length one; a text is a sequence of          *)
(* characters, text[i] being the code's text[i - 1].                        *)

LowerSeq == <<"a", "b", "c", "d", "e", "f", "g", "h", "i", "j", "k", "l", "m">>
               \o <<"n", "o", "p", "q", "r", "s", "t", "u", "v", "w", "x", "y", "z">>
UpperSeq == <<"A", "B", "C", "D", "E", "F", "G", "H", "I", "J", "K", "L", "M">>
               \o <<"N", "O", "P", "Q", "R", "S", "T", "U", "V", "W", "X", "Y", "Z">>
LowerCase == {LowerSeq[i] : i \in 1..Len(LowerSeq)}
\* /[A-Z]/ and /[0-9]/
UpperCase == {UpperSeq[i] : i \in 1..Len(UpperSeq)}
Digits ==
    {"0", "1", "2", "3", "4", "5", "6", "7", "8", "9"}
\* /[!@#$%^&*()_+{}|:"<>?[\]\\;'.,/]/
SymbolChars ==
    {"!", "@", "#", "$", "%", "^", "&", "*", "(", ")", "_", "+", "{", "}",
     "|", ":", "\"", "<", ">", "?", "[", "]", "\\", ";", "'", ".", ",", "/"}
\* /\s/ (the whitespace the texts use), /\w/, /[.!?]/
WhiteSpace == {" ", "\n", "\t"}
WordChars == LowerCase \cup UpperCase \cup Digits \cup {"_"}
SentenceEnd == {".", "!", "?"}
\* /[0-9!@#$%^&*()]/ and /[aeiou\s]/
ErrorProneChars == Digits \cup {"!", "@", "#", "$", "%", "^", "&", "*", "(", ")"}
EasyChars == {"a", "e", "i", "o", "u"} \cup WhiteSpace
\* String.prototype.toLowerCase on one character
toLowerCase(char) ==
    IF char \in UpperCase
    THEN LowerSeq[CHOOSE i \in 1..Len(UpperSeq) : UpperSeq[i] = char]
    ELSE char
\* keyboardLayout of HumanTyping.getAdjacentKey
keyboardLayout ==
    "q" :> <<"w", "a", "s">>
    @@ "w" :> <<"q", "e", "a", "s", "d">>
    @@ "e" :> <<"w", "r", "s", "d", "f">>
    @@ "r" :> <<"e", "t", "d", "f", "g">>
    @@ "t" :> <<"r", "y", "f", "g", "h">>
    @@ "y" :> <<"t", "u", "g", "h", "j">>
    @@ "u" :> <<"y", "i", "h", "j", "k">>
    @@ "i" :> <<"u", "o", "j", "k", "l">>
    @@ "o" :> <<"i", "p", "k", "l">>
    @@ "p" :> <<"o", "l">>
    @@ "a" :> <<"q", "w", "s", "z">>
    @@ "s" :> <<"a", "w", "e", "d", "z", "x">>
    @@ "d" :> <<"s", "e", "r", "f", "x", "c">>
    @@ "f" :> <<"d", "r", "t", "g", "c", "v">>
    @@ "g" :> <<"f", "t", "y", "h", "v", "b">>
    @@ "h" :> <<"g", "y", "u", "j", "b", "n">>
    @@ "j" :> <<"h", "u", "i", "k", "n", "m">>
    @@ "k" :> <<"j", "i", "o", "l", "m">>
    @@ "l" :> <<"k", "o", "p", "m">>
    @@ "z" :> <<"a", "s", "x">>
    @@ "x" :> <<"z", "s", "d", "c">>
    @@ "c" :> <<"x", "d", "f", "v">>
    @@ "v" :> <<"c", "f", "g", "b">>
    @@ "b" :> <<"v", "g", "h", "n">>
    @@ "n" :> <<"b", "h", "j", "m">>
    @@ "m" :> <<"n", "j", "k", "l">>
\* HumanTyping.initializeCharacterPatterns: the difficultyMultiplier of a key
characterPatterns ==
    "a" :> Num(8, 10) @@ "s" :> Num(8, 10) @@ "d" :> Num(8, 10)
    @@ "f" :> Num(8, 10) @@ "g" :> Num(8, 10) @@ "h" :> Num(8, 10)
    @@ "j" :> Num(8, 10) @@ "k" :> Num(8, 10) @@ "l" :> Num(8, 10)
    @@ "q" :> Num(12, 10) @@ "w" :> Num(10, 10) @@ "e" :> Num(9, 10)
    @@ "r" :> Num(9, 10) @@ "t" :> Num(9, 10) @@ "y" :> Num(10, 10)
    @@ "u" :> Num(10, 10) @@ "i" :> Num(10, 10) @@ "o" :> Num(10, 10)
    @@ "p" :> Num(12, 10) @@ "z" :> Num(13, 10) @@ "x" :> Num(12, 10)
    @@ "c" :> Num(11, 10) @@ "v" :> Num(11, 10) @@ "b" :> Num(12, 10)
    @@ "n" :> Num(11, 10) @@ "m" :> Num(11, 10)
\* HumanTyping.initializeCommonErrors: the entries a single character can
\* select (the keys "the", "and", "you", "that" are never equal to a character)
commonErrors ==
    "a" :> <<"s", "q">> @@ "e" :> <<"w", "r">> @@ "i" :> <<"u", "o">>
    @@ "o" :> <<"i", "p">> @@ "u" :> <<"y", "i">>
\* commonWords of HumanTyping.isCommonWord, each a sequence of characters
commonWords ==
    {<<"t", "h", "e">>, <<"a", "n", "d">>, <<"o", "r">>, <<"b", "u", "t">>,
     <<"i", "n">>, <<"o", "n">>, <<"a", "t">>, <<"t", "o">>,
     <<"f", "o", "r">>, <<"o", "f">>, <<"w", "i", "t", "h">>, <<"b", "y">>,
     <<"f", "r", "o", "m">>, <<"u", "p">>, <<"a", "b", "o", "u", "t">>,
     <<"i", "n", "t", "o">>, <<"t", "h", "r", "o", "u", "g", "h">>,
     <<"d", "u", "r", "i", "n", "g">>, <<"b", "e", "f", "o", "r", "e">>,
     <<"a", "f", "t", "e", "r">>, <<"a", "b", "o", "v", "e">>,
     <<"b", "e", "l", "o", "w">>, <<"b", "e", "t", "w", "e", "e", "n">>,
     <<"a", "m", "o", "n", "g">>, <<"a">>, <<"a", "n">>, <<"a", "s">>,
     <<"a", "r", "e">>, <<"w", "a", "s">>, <<"w", "e", "r", "e">>,
     <<"b", "e", "e", "n">>, <<"b", "e">>, <<"h", "a", "v", "e">>,
     <<"h", "a", "s">>, <<"h", "a", "d">>, <<"d", "o">>,
     <<"d", "o", "e", "s">>, <<"d", "i", "d">>, <<"w", "i", "l", "l">>,
     <<"w", "o", "u", "l", "d">>, <<"c", "o", "u", "l", "d">>,
     <<"s", "h", "o", "u", "l", "d">>, <<"m", "a", "y">>,
     <<"m", "i", "g", "h", "t">>, <<"m", "u", "s", "t">>, <<"c", "a", "n">>,
     <<"i">>, <<"y", "o", "u">>, <<"h", "e">>, <<"s", "h", "e">>,
     <<"i", "t">>, <<"w", "e">>, <<"t", "h", "e", "y">>, <<"m", "e">>,
     <<"h", "i", "m">>, <<"h", "e", "r">>, <<"u", "s">>,
     <<"t", "h", "e", "m">>}
\* HumanTyping.randomDelay, r the Math.random() draw
randomDelay(min, max, r) == MathFloor(Mul(r, Int2Num(max - min + 1))).n + min

\* HumanTyping.isCommonWord
isCommonWord(word) ==
    [i \in 1..Len(word) |-> toLowerCase(word[i])] \in commonWords

\* text.substring(0, index + 1).match(/\b\w+$/): the longest run of word
\* characters that ends at text[i], empty when text[i] is no word character
RECURSIVE wordStart(_, _)
wordStart(text, i) ==
    IF i >= 1 /\ text[i] \in WordChars THEN wordStart(text, i - 1) ELSE i + 1
currentWordAt(text, i) == SubSeq(text, wordStart(text, i), i)

\* HumanTyping.getCharacterContext
getCharacterContext(text, i) ==
    LET char == text[i]
        prevChar == IF i > 1 THEN text[i - 1] ELSE ""
        nextChar == IF i < Len(text) THEN text[i + 1] ELSE ""
        currentWord == currentWordAt(text, i)
    IN  [character |-> char, prevChar |-> prevChar, nextChar |-> nextChar,
         isWordStart |-> prevChar \in WhiteSpace /\ char \in WordChars,
         isWordEnd |-> char \in WordChars /\ (nextChar \in WhiteSpace \/ nextChar = ""),
         afterPunctuation |-> prevChar \in SentenceEnd,
         isCommonWord |-> isCommonWord(currentWord),
         isComplexWord |-> Len(currentWord) > 8,
         wordLength |-> Len(currentWord)]

\* Number of characters of text that are in class
CountIn(text, class) == Cardinality({i \in 1..Len(text) : text[i] \in class})
\* text.split(/\s+/).filter(word => word.length > 0).length
WordCount(text) ==
    Cardinality({i \in 1..Len(text) :
                    text[i] \notin WhiteSpace /\ (i = 1 \/ text[i - 1] \in WhiteSpace)})

\* HumanTyping.calculateTextComplexity
calculateTextComplexity(text) ==
    LET length == Int2Num(Len(text))
        specialChars == Int2Num(CountIn(text, SymbolChars))
        numbers == Int2Num(CountIn(text, Digits))
        capitals == Int2Num(CountIn(text, UpperCase))
        avgWordLength ==
            Div(Int2Num(Len(text) - CountIn(text, WhiteSpace)), Int2Num(WordCount(text)))
        complexity ==
            Add(Add(Add(Mul(Div(specialChars, length), Num(5, 10)),
                        Mul(Div(numbers, length), Num(3, 10))),
                    Mul(Div(capitals, length), Num(2, 10))),
                MathMax(Int2Num(0), Div(Sub(avgWordLength, Int2Num(5)), Int2Num(10))))
    IN  MathMin(Int2Num(1), complexity)

\* HumanTyping.calculateAdjustedWPM, r the index of its Math.random() draw
calculateAdjustedWPM(text, config, r) ==
    LET varied == Add(currentWPM, Mul(Sub(Rand(r), Num(1, 2)), NumOf(config, "wpmVariation")))
        complexityFactor == calculateTextComplexity(text)
        slowed == FMul(varied, Sub(Int2Num(1), Mul(complexityFactor, Num(3, 10))))
        tired == FMul(slowed, Sub(Int2Num(1), Mul(Num(typingFatigue, FatigueOne), Num(2, 10))))
    IN  MathMax(Int2Num(20), tired)

\* HumanTyping.calculateCharacterDelay, r the index of its Math.random() draw
calculateCharacterDelay(char, baseDelay, config, r) ==
    LET classed ==
            IF char = " " THEN FMul(baseDelay, Num(5, 10))
            ELSE IF char \in UpperCase THEN FMul(baseDelay, NumOf(config, "capitalLetterDelay"))
            ELSE IF char \in Digits THEN FMul(baseDelay, NumOf(config, "numberDelay"))
            ELSE IF char \in SymbolChars THEN FMul(baseDelay, NumOf(config, "symbolDelay"))
            ELSE baseDelay
        moved ==
            IF char \in DOMAIN characterPatterns
            THEN FMul(classed, characterPatterns[char]) ELSE classed
        varied == FMul(moved, Add(Num(7, 10), Mul(Rand(r), Num(6, 10))))
    IN  FMul(varied, Add(Int2Num(1), Mul(Num(typingFatigue, FatigueOne), Num(3, 10))))

\* HumanTyping.applyContextualAdjustments
applyContextualAdjustments(delay, context, config) ==
    LET d1 == IF context.isWordStart \/ context.isWordEnd
              THEN FMul(delay, Num(12, 10)) ELSE delay
        d2 == IF context.afterPunctuation THEN FMul(d1, Num(14, 10)) ELSE d1
        d3 == IF context.isCommonWord THEN FMul(d2, Num(8, 10)) ELSE d2
    IN  IF context.isComplexWord THEN FMul(d3, Num(13, 10)) ELSE d3

\* A number used as a condition: 0 and NaN are false
TruthyNum(a) == ~IsNaN(a) /\ a.n # 0

\* Whether shouldMakeTypingError and shouldAddThinkingPause reach their
\* Math.random() call
errorDraws(config) == IF TruthyNum(NumOf(config, "errorRate")) THEN 1 ELSE 0
pauseDraws(config) == IF config.thinkingPauses.enabled THEN 1 ELSE 0

\* HumanTyping.shouldMakeTypingError, r the index of its Math.random() draw
shouldMakeTypingError(char, config, r) ==
    IF ~TruthyNum(NumOf(config, "errorRate")) THEN FALSE
    ELSE LET e1 == IF char \in UpperCase
                   THEN Mul(config.errorRate, Num(15, 10)) ELSE config.errorRate
             e2 == IF char \in ErrorProneChars THEN Mul(e1, Int2Num(2)) ELSE e1
             e3 == IF char \in EasyChars THEN Mul(e2, Num(5, 10)) ELSE e2
             errorRate ==
                 Mul(e3, Add(Int2Num(1), Mul(Num(typingFatigue, FatigueOne), Num(5, 10))))
         IN  Lt(Rand(r), errorRate)

\* HumanTyping.shouldAddThinkingPause, r the index of its Math.random() draw
shouldAddThinkingPause(text, i, config, r) ==
    IF ~config.thinkingPauses.enabled THEN FALSE
    ELSE LET context == getCharacterContext(text, i)
             p0 == NumOf(config.thinkingPauses, "probability")
             p1 == IF context.isWordStart THEN Mul(p0, Int2Num(2)) ELSE p0
             p2 == IF context.afterPunctuation THEN Mul(p1, Int2Num(3)) ELSE p1
             pauseProbability == IF context.isComplexWord THEN Mul(p2, Num(15, 10)) ELSE p2
         IN  Lt(Rand(r), pauseProbability)

\* HumanTyping.calculateThinkingPauseDuration, r the index of its draw
calculateThinkingPauseDuration(config, r) ==
    randomDelay(config.thinkingPauses.duration.min,
                config.thinkingPauses.duration.max, Rand(r))

\* One iteration of generateTypingPattern's loop: the entry it pushes for
\* text[i] and the number of Math.random() draws it makes
patternEntry(text, i, baseDelay, config, r) ==
    LET char == text[i]
        context == getCharacterContext(text, i)
        delay == applyContextualAdjustments(
                     calculateCharacterDelay(char, baseDelay, config, r), context, config)
        shouldError == shouldMakeTypingError(char, config, r + 1)
        r2 == r + 1 + errorDraws(config)
        shouldPause == shouldAddThinkingPause(text, i, config, r2)
        r3 == r2 + pauseDraws(config)
    IN  [entry |-> [character |-> char, delay |-> MathFloor(delay),
                    shouldError |-> shouldError, shouldPause |-> shouldPause,
                    pauseDuration |-> IF shouldPause
                                      THEN calculateThinkingPauseDuration(config, r3)
                                      ELSE 0,
                    context |-> context],
         draws |-> (r3 - r) + (IF shouldPause THEN 1 ELSE 0)]

RECURSIVE patternFrom(_, _, _, _, _)
patternFrom(text, i, baseDelay, config, r) ==
    IF i > Len(text) THEN [pattern |-> << >>, draws |-> 0]
    ELSE LET e == patternEntry(text, i, baseDelay, config, r)
             rest == patternFrom(text, i + 1, baseDelay, config, r + e.draws)
         IN  [pattern |-> <<e.entry>> \o rest.pattern, draws |-> e.draws + rest.draws]

\* Faulty variant of generateTypingPattern: an error pushes a second entry
RECURSIVE patternFromDoubled(_, _, _, _, _)
patternFromDoubled(text, i, baseDelay, config, r) ==
    IF i > Len(text) THEN [pattern |-> << >>, draws |-> 0]
    ELSE LET e == patternEntry(text, i, baseDelay, config, r)
             rest == patternFromDoubled(text, i + 1, baseDelay, config, r + e.draws)
         IN  [pattern |-> (IF e.entry.shouldError THEN <<e.entry, e.entry>>
                           ELSE <<e.entry>>) \o rest.pattern,
              draws |-> e.draws + rest.draws]

generateTypingPatternDoubled(text, wpm, config, r) ==
    patternFromDoubled(text, 1, Fix(Div(Int2Num(60000), Mul(wpm, Int2Num(5)))), config, r)

\* Faulty variant of generateTypingPattern: an empty text is typed as one
\* space
generateTypingPatternPadded(text, wpm, config, r) ==
    patternFrom(IF text = << >> THEN <<" ">> ELSE text, 1,
                Fix(Div(Int2Num(60000), Mul(wpm, Int2Num(5)))), config, r)

\* HumanTyping.generateTypingPattern: the pattern it returns, and the number
\* of Math.random() draws it makes; r is the index of its first draw
generateTypingPattern(text, wpm, config, r) ==
    patternFrom(text, 1, Fix(Div(Int2Num(60000), Mul(wpm, Int2Num(5)))), config, r)

\* HumanTyping.getAdjacentKey, r the Math.random() draw it makes when the key
\* has neighbours
getAdjacentKey(char, r) ==
    IF toLowerCase(char) \in DOMAIN keyboardLayout
    THEN LET adjacent == keyboardLayout[toLowerCase(char)]
         IN  adjacent[MathFloor(Mul(r, Int2Num(Len(adjacent)))).n + 1]
    ELSE char

\* HumanTyping.generateTypingError, r the Math.random() draw
generateTypingError(correctChar, r) ==
    IF correctChar \in DOMAIN commonErrors
    THEN LET errors == commonErrors[correctChar]
         IN  errors[MathFloor(Mul(r, Int2Num(Len(errors)))).n + 1]
    ELSE getAdjacentKey(correctChar, r)
\* Whether generateTypingError reaches a Math.random() call
substituteDraws(char) ==
    IF char \in DOMAIN commonErrors \/ toLowerCase(char) \in DOMAIN keyboardLayout
    THEN 1 ELSE 0

\* Input events and suspensions, in the order they are issued
KeyEvent(op, key) == [op |-> op, key |-> key, ms |-> Int2Num(0)]
Sleep(ms) == [op |-> "sleep", key |-> "", ms |-> ms]

\* HumanTyping.typeCharacter ("\b" is not among the characters of the texts)
typeCharacter(char, delay) ==
    <<IF char = "\n" THEN KeyEvent("keyTap", "enter")
      ELSE IF char = "\t" THEN KeyEvent("keyTap", "tab")
      ELSE KeyEvent("typeString", char)>>
    \o (IF Gt(delay, Int2Num(0)) THEN <<Sleep(delay)>> ELSE << >>)

\* Faulty variant of executeTypingError: the intended character is not retyped
executeTypingErrorNoRetype(item, config, r) ==
    typeCharacter(generateTypingError(item.character, Rand(r)), item.delay)
    \o <<Sleep(Int2Num(randomDelay(config.correctionDelay.min,
                                   config.correctionDelay.max,
                                   Rand(r + substituteDraws(item.character))))),
         KeyEvent("keyTap", "backspace"),
         Sleep(Int2Num(randomDelay(50, 150,
                                   Rand(r + substituteDraws(item.character) + 1))))>>

\* HumanTyping.executeTypingError, r the index of its first Math.random()
\* draw: the events and suspensions it issues
executeTypingError(item, config, r) ==
    LET errorChar == generateTypingError(item.character, Rand(r))
        r1 == r + substituteDraws(item.character)
        reactionDelay == randomDelay(config.correctionDelay.min,
                                     config.correctionDelay.max, Rand(r1))
    IN  typeCharacter(errorChar, item.delay)
        \o <<Sleep(Int2Num(reactionDelay)),
             KeyEvent("keyTap", "backspace"),
             Sleep(Int2Num(randomDelay(50, 150, Rand(r1 + 1))))>>
        \o typeCharacter(item.character, Mul(item.delay, Num(8, 10)))
\* The number of Math.random() draws executeTypingError makes
errorStepDraws(item) == substituteDraws(item.character) + 2

\* Faulty variant of the loop body: every item is executed as an error
executeTypingItemAlwaysError(item, config, r) ==
    (IF item.shouldPause THEN <<Sleep(Int2Num(item.pauseDuration))>> ELSE << >>)
    \o executeTypingError(item, config, r)

\* One iteration of executeTypingPattern's loop, before its fatigue update:
\* the events and suspensions it issues
executeTypingItem(item, config, r) ==
    (IF item.shouldPause THEN <<Sleep(Int2Num(item.pauseDuration))>> ELSE << >>)
    \o (IF item.shouldError THEN executeTypingError(item, config, r)
        ELSE typeCharacter(item.character, item.delay))

----------------------------------------------------------------------------
(* Fatigue trackers *)

\* Faulty variant of updateFatigue: no cap at 1
updateFatigueNoCap(fatigue, timeSinceLastAction) ==
    IF timeSinceLastAction > MouseRestMs
    THEN Max(0, fatigue - MouseRestStep)
    ELSE fatigue + MouseFatigueStep

\* Faulty variant of updateFatigue: rest begins at the threshold itself
updateFatigueAtThreshold(fatigue, timeSinceLastAction) ==
    IF timeSinceLastAction >= MouseRestMs
    THEN Max(0, fatigue - MouseRestStep)
    ELSE Min(FatigueOne, fatigue + MouseFatigueStep)

\* EnhancedHumanMouse.updateFatigue: the new fatigue
updateFatigue(fatigue, timeSinceLastAction) ==
    IF timeSinceLastAction > MouseRestMs
    THEN Max(0, fatigue - MouseRestStep)
    ELSE Min(FatigueOne, fatigue + MouseFatigueStep)

\* HumanTyping.updateTypingFatigue: the new fatigue (lastTypingTime is set
\* to Date.now() by the caller action)
updateTypingFatigue(fatigue, timeSinceLastType) ==
    IF timeSinceLastType > TypingRestMs
    THEN Max(0, fatigue - TypingRestStep)
    ELSE Min(FatigueOne, fatigue + TypingFatigueStep)

\* Both engines are constructed together (the bot's constructor)
InitEngines ==
    /\ mouseFatigue = 0
    /\ mouseIdle = 0
    /\ typingFatigue = 0
    /\ typingIdle = 0
    /\ currentWPM = TypingDefaults.wpm
    /\ movementHistory = << >>
    /\ rndTape = [i \in 1..TapeLen |-> 0]
    /\ rndPos = 0
    /\ pathArgs = NoCall
    /\ pathPoints = << >>
    /\ pathDone = FALSE
    /\ execArgs = NoCall
    /\ execIndex = 0
    /\ execDelay = Int2Num(0)
    /\ typingHistory = << >>
    /\ typeArgs = NoCall
    /\ typePattern = << >>
    /\ typePc = "idle"
    /\ typeIndex = 0
    /\ stepLog = << >>
    /\ keyEvents = << >>
    /\ BotIdle
    /\ MouseIdle

\* Faulty variant of click: the typing engine's fatigue is written too
ClickShared ==
    /\ mouseFatigue' = updateFatigue(mouseFatigue, mouseIdle)
    /\ typingFatigue' = mouseFatigue'
    /\ UNCHANGED <<mouseIdle, typingIdle, currentWPM>>
    /\ UNCHANGED notEngine

\* EnhancedHumanMouse.click: its effect on the engine state
Click ==
    /\ mouseFatigue' = updateFatigue(mouseFatigue, mouseIdle)
    /\ UNCHANGED <<mouseIdle, typingFatigue, typingIdle, currentWPM>>
    /\ UNCHANGED notEngine

\* EnhancedHumanMouse.moveToPosition: updateMovementMetrics sets
\* lastMovementTime = Date.now()
MoveToPosition ==
    /\ mouseIdle' = 0
    /\ UNCHANGED <<mouseFatigue, typingFatigue, typingIdle, currentWPM>>
    /\ UNCHANGED notEngine

\* EnhancedHumanMouse.reset
MouseReset ==
    /\ mouseFatigue' = 0
    /\ movementHistory' = << >>
    /\ mouseIdle' = 0
    /\ UNCHANGED <<typingFatigue, typingIdle, currentWPM>>
    /\ UNCHANGED <<rndVars, pathArgs, pathPoints, pathDone, execVars, typeVars, botVars, lifeVars, opVars>>

\* One iteration of HumanTyping.executeTypingPattern's loop, as typeText
\* runs it for each character: its effect on the engine state
TypeCharacterStep ==
    /\ typingFatigue' = updateTypingFatigue(typingFatigue, typingIdle)
    /\ typingIdle' = 0
    /\ UNCHANGED <<mouseFatigue, mouseIdle, currentWPM>>
    /\ UNCHANGED notEngine

\* HumanTyping.reset
TypingReset ==
    /\ typingFatigue' = 0
    /\ typingIdle' = 0
    /\ currentWPM' = TypingDefaults.wpm
    /\ UNCHANGED <<mouseFatigue, mouseIdle>>
    /\ UNCHANGED notEngine

\* Idle periods the clock can advance by between two engine calls
IdlePeriods == {MouseRestMs, MouseRestMs + 1, TypingRestMs, TypingRestMs + 1}

\* Date.now() advances by ms
Elapse(ms) ==
    /\ mouseIdle' = Min(MouseRestMs + 1, mouseIdle + ms)
    /\ typingIdle' = Min(TypingRestMs + 1, typingIdle + ms)
    /\ UNCHANGED <<mouseFatigue, typingFatigue, currentWPM>>
    /\ UNCHANGED notEngine

Next ==
    \/ Click
    \/ MoveToPosition
    \/ MouseReset
    \/ TypeCharacterStep
    \/ TypingReset
    \/ \E ms \in IdlePeriods : Elapse(ms)

Spec == InitEngines /\ [][Next]_vars

----------------------------------------------------------------------------
(* HumanTyping.typeText *)

\* The events of log that are not suspensions
KeysOf(log) == SelectSeq(log, LAMBDA e : e.op # "sleep")
\* The milliseconds log suspends the caller for
RECURSIVE SleepTotal(_)
SleepTotal(log) ==
    IF Len(log) = 0 THEN Int2Num(0)
    ELSE Add(IF log[1].op = "sleep" THEN log[1].ms ELSE Int2Num(0), SleepTotal(Tail(log)))

\* HumanTyping.updateTypingMetrics: the new typingHistory
updateTypingMetrics(history, text, duration) ==
    LET entry == [length |-> Min(Len(text), 50), duration |-> duration,
                  wpm |-> Div(Div(Int2Num(Len(text)), Int2Num(5)),
                              Div(Int2Num(duration), Int2Num(60000)))]
        pushed == Append(history, entry)
    IN  IF Len(pushed) > TypingHistoryCap THEN Tail(pushed) ELSE pushed

\* Calls of typeText: the texts, and the options the caller merges over
\* the defaults
HelloWorld == <<"H", "e", "l", "l", "o", ",", " ", "W", "o", "r", "l", "d", "!">>
LongWord == <<"i", "n", "t", "e", "r", "v", "i", "e", "w", "s">>
ShortTexts == {<< >>, <<" ">>, <<"H", "i">>, <<"t", "o", " ", "7", "!">>}
BotOptions == [wpm |-> Int2Num(60)]
NoErrorOptions ==
    [errorRate |-> Int2Num(0), thinkingPauses |-> [enabled |-> FALSE]]
AlwaysErrorOptions == [errorRate |-> Int2Num(1)]
TypeCalls ==
    (ShortTexts \X {BotOptions, NoErrorOptions, AlwaysErrorOptions})
        \cup {<<HelloWorld, BotOptions>>, <<HelloWorld, NoErrorOptions>>,
              <<LongWord, NoErrorOptions>>}

InitTyping ==
    /\ mouseFatigue = 0
    /\ mouseIdle = 0
    /\ \E tired \in BOOLEAN :
           /\ typingFatigue = IF tired THEN FatigueOne ELSE 0
           /\ typingIdle = IF tired THEN TypingRestMs + 1 ELSE 0
    /\ currentWPM = TypingDefaults.wpm
    /\ movementHistory = << >>
    /\ rndTape \in Tapes
    /\ rndPos = 0
    /\ pathArgs = NoCall
    /\ pathPoints = << >>
    /\ pathDone = FALSE
    /\ execArgs = NoCall
    /\ execIndex = 0
    /\ execDelay = Int2Num(0)
    /\ typingHistory = << >>
    /\ \E call \in TypeCalls :
           typeArgs = [called |-> TRUE, text |-> call[1],
                       config |-> Spread(TypingDefaults, call[2])]
    /\ typePattern = << >>
    /\ typePc = "idle"
    /\ typeIndex = 0
    /\ stepLog = << >>
    /\ keyEvents = << >>
    /\ BotIdle
    /\ MouseIdle

\* HumanTyping.typeText up to its first suspension: the adjusted speed and
\* the typing pattern are computed
TypeTextStart ==
    /\ typeArgs.called
    /\ typePc = "idle"
    /\ LET adjustedWPM == calculateAdjustedWPM(typeArgs.text, typeArgs.config, 0)
           generated == generateTypingPattern(typeArgs.text, adjustedWPM,
                                              typeArgs.config, 1)
       IN  /\ typePattern' = generated.pattern
           /\ rndPos' = (rndPos + 1 + generated.draws) % Len(rndTape)
    /\ typePc' = "executing"
    /\ typeIndex' = 0
    /\ UNCHANGED <<botVars, lifeVars, opVars>>
    /\ UNCHANGED <<engineVars, rndTape, pathVars, execVars, typingHistory, typeArgs,
                   stepLog, keyEvents>>

\* One iteration of HumanTyping.executeTypingPattern's loop: the events of
\* pattern[i] are issued, the time they suspend for passes, and the fatigue
\* is updated
ExecuteTypingStep ==
    /\ typePc = "executing"
    /\ typeIndex < Len(typePattern)
    /\ LET item == typePattern[typeIndex + 1]
           log == executeTypingItem(item, typeArgs.config, 0)
           slept == MathFloor(SleepTotal(log)).n
       IN  /\ stepLog' = log
           /\ keyEvents' = keyEvents \o KeysOf(log)
           /\ rndPos' = (rndPos + (IF item.shouldError THEN errorStepDraws(item) ELSE 0))
                            % Len(rndTape)
           /\ typingFatigue' =
                  updateTypingFatigue(typingFatigue, Min(TypingRestMs + 1, typingIdle + slept))
           /\ mouseIdle' = Min(MouseRestMs + 1, mouseIdle + slept)
    /\ typingIdle' = 0
    /\ typeIndex' = typeIndex + 1
    /\ UNCHANGED <<botVars, lifeVars, opVars>>
    /\ UNCHANGED <<mouseFatigue, currentWPM, rndTape, pathVars, execVars, typingHistory,
                   typeArgs, typePattern, typePc>>

\* HumanTyping.typeText after executeTypingPattern has returned
TypeTextReturn ==
    /\ typePc = "executing"
    /\ typeIndex = Len(typePattern)
    /\ typingHistory' = updateTypingMetrics(typingHistory, typeArgs.text, typingIdle)
    /\ typePc' = "done"
    /\ UNCHANGED <<botVars, lifeVars, opVars>>
    /\ UNCHANGED <<engineVars, rndVars, pathVars, execVars, typeArgs, typePattern,
                   typeIndex, stepLog, keyEvents>>

NextTyping ==
    \/ TypeTextStart
    \/ ExecuteTypingStep
    \/ TypeTextReturn

SpecTyping == InitTyping /\ [][NextTyping]_vars

----------------------------------------------------------------------------
(* LinkedInJobBot (src/unnamed/part_000): the main loop awaits              *)
(* executeDecision, whose action handlers await one engine operation after *)
(* the other.  An operation is seen here as the input primitives it issues. *)

\* Decisions the main loop executes, and primitives one operation issues
MaxActions == 2
MaxPrimitives == 2

\* The engine operations the action handlers call, in order
HandlerOps ==
    [executeClick |-> <<"moveToPosition", "click">>,
     executeTyping |-> <<"moveToPosition", "click", "typeText">>,
     executeScroll |-> <<"scroll">>,
     executeDrag |-> <<"drag">>]

InitBot ==
    /\ mouseFatigue = 0
    /\ mouseIdle = 0
    /\ typingFatigue = 0
    /\ typingIdle = 0
    /\ currentWPM = TypingDefaults.wpm
    /\ movementHistory = << >>
    /\ rndTape = [i \in 1..TapeLen |-> 0]
    /\ rndPos = 0
    /\ pathArgs = NoCall
    /\ pathPoints = << >>
    /\ pathDone = FALSE
    /\ execArgs = NoCall
    /\ execIndex = 0
    /\ execDelay = Int2Num(0)
    /\ typingHistory = << >>
    /\ typeArgs = NoCall
    /\ typePattern = << >>
    /\ typePc = "idle"
    /\ typeIndex = 0
    /\ stepLog = << >>
    /\ keyEvents = << >>
    /\ BotIdle
    /\ MouseIdle

\* mainExecutionLoop: await this.executeDecision(decision, screenshot), which
\* enters the handler of the decision's action
ExecuteDecision(handler) ==
    /\ botHandler = "none"
    /\ inFlight = {}
    /\ botActions < MaxActions
    /\ botActions' = botActions + 1
    /\ botHandler' = handler
    /\ botPc' = 1
    /\ UNCHANGED <<inFlight, primLog>>
    /\ UNCHANGED <<engineVars, rndVars, pathVars, execVars, typeVars, lifeVars, opVars>>

\* Faulty variant of CallOperation: the handler does not await the operation
\* it called before
CallOperationNoAwait(primitives) ==
    /\ botHandler # "none"
    /\ botPc <= Len(HandlerOps[botHandler])
    /\ inFlight' = inFlight \cup {[id |-> <<botActions, botPc>>,
                                   name |-> HandlerOps[botHandler][botPc],
                                   left |-> primitives]}
    /\ botPc' = botPc + 1
    /\ UNCHANGED <<botActions, botHandler, primLog>>
    /\ UNCHANGED <<engineVars, rndVars, pathVars, execVars, typeVars, lifeVars, opVars>>

\* A handler's await this.mouse.<operation>(...) or await
\* this.typing.typeText(...): the call is made once the operation awaited
\* before has returned
CallOperation(primitives) ==
    /\ botHandler # "none"
    /\ botPc <= Len(HandlerOps[botHandler])
    /\ inFlight = {}
    /\ inFlight' = inFlight \cup {[id |-> <<botActions, botPc>>,
                                   name |-> HandlerOps[botHandler][botPc],
                                   left |-> primitives]}
    /\ botPc' = botPc + 1
    /\ UNCHANGED <<botActions, botHandler, primLog>>
    /\ UNCHANGED <<engineVars, rndVars, pathVars, execVars, typeVars, lifeVars, opVars>>

\* An operation in flight issues its next input primitive
IssuePrimitive ==
    /\ \E op \in inFlight :
           /\ op.left > 0
           /\ inFlight' = (inFlight \ {op}) \cup {[op EXCEPT !.left = op.left - 1]}
           /\ primLog' = Append(primLog, [id |-> op.id, name |-> op.name])
    /\ UNCHANGED <<botActions, botHandler, botPc>>
    /\ UNCHANGED <<engineVars, rndVars, pathVars, execVars, typeVars, lifeVars, opVars>>

\* An operation that has issued all its primitives returns to its caller
OperationReturns ==
    /\ \E op \in inFlight :
           /\ op.left = 0
           /\ inFlight' = inFlight \ {op}
    /\ UNCHANGED <<botActions, botHandler, botPc, primLog>>
    /\ UNCHANGED <<engineVars, rndVars, pathVars, execVars, typeVars, lifeVars, opVars>>

\* The handler returns to executeDecision and the main loop
HandlerReturns ==
    /\ botHandler # "none"
    /\ botPc > Len(HandlerOps[botHandler])
    /\ inFlight = {}
    /\ botHandler' = "none"
    /\ botPc' = 0
    /\ UNCHANGED <<botActions, inFlight, primLog>>
    /\ UNCHANGED <<engineVars, rndVars, pathVars, execVars, typeVars, lifeVars, opVars>>

NextBot ==
    \/ \E handler \in DOMAIN HandlerOps : ExecuteDecision(handler)
    \/ \E primitives \in 0..MaxPrimitives : CallOperation(primitives)
    \/ IssuePrimitive
    \/ OperationReturns
    \/ HandlerReturns

SpecBot == InitBot /\ [][NextBot]_vars

----------------------------------------------------------------------------
(* EnhancedHumanMouse: moveToPosition, click, drag and reset.  An operation *)
(* goes through a sequence of statements.  An event is an input primitive  *)
(* (robot.moveMouse, robot.mouseToggle), a suspension (sleep) or an update  *)
(* of the engine's state; the other statements draw from Math.random() and  *)
(* are replaced, when the operation reaches them, by the events and         *)
(* statements they give rise to.  opPlan[1..opIndex] are the events the     *)
(* operation has gone through.                                              *)

\* defaults.mouse.clicking
MouseClickingDefaults ==
    [preClickDelay |-> [min |-> 100, max |-> 300],
     postClickDelay |-> [min |-> 50, max |-> 200],
     clickDuration |-> [min |-> 80, max |-> 150],
     microMovementBeforeClick |-> TRUE,
     doubleClickInterval |-> [min |-> 100, max |-> 200]]
\* options = {}
NoOptions == [key \in {} |-> TRUE]

\* updateMovementMetrics keeps the movement history at this length
MovementHistoryCap == 10

\* Math.sin(turn * Math.PI * 2) and Math.cos(turn * Math.PI * 2) for
\* 0 <= turn < 1, by Bhaskara's formula: exact at the quarter turns, within
\* 0.002 elsewhere
RECURSIVE MathSin(_)
MathSin(turn) ==
    IF Gt(turn, Num(1, 2)) THEN Neg(MathSin(Sub(turn, Num(1, 2))))
    ELSE LET p == Mul(turn, Int2Num(2))
             q == Mul(p, Sub(Int2Num(1), p))
         IN  FDiv(Mul(Int2Num(16), q), Sub(Int2Num(5), Mul(Int2Num(4), q)))
MathCos(turn) ==
    LET shifted == Add(turn, Num(1, 4))
    IN  MathSin(IF Ge(shifted, Int2Num(1)) THEN Sub(shifted, Int2Num(1)) ELSE shifted)

\* A statement of an operation.  part names the place in the operation
Statement(op, arg, x, y, x2, y2, ms, part) ==
    [op |-> op, arg |-> arg, button |-> "", x |-> x, y |-> y, x2 |-> x2, y2 |-> y2,
     ms |-> ms, part |-> part]
Zero == Int2Num(0)
\* Events: robot.moveMouse(Math.round(x), Math.round(y)),
\* robot.mouseToggle(down, button), await this.sleep(ms), and the calls of
\* updateMovementMetrics and updateFatigue
MoveMouse(x, y, part) ==
    Statement("moveMouse", "", MathRound(x), MathRound(y), Zero, Zero, Zero, part)
MouseToggle(down, button, part) ==
    [Statement("mouseToggle", down, Zero, Zero, Zero, Zero, Zero, part)
         EXCEPT !.button = button]
MouseSleep(ms, part) == Statement("sleep", "", Zero, Zero, Zero, Zero, ms, part)
EngineStep(op, x, y) == Statement(op, "", x, y, Zero, Zero, Zero, "")
Events == {"moveMouse", "mouseToggle", "sleep", "updateMovementMetrics", "updateFatigue"}
IsPrimitive(statement) == statement.op \in {"moveMouse", "mouseToggle"}
\* Statements that draw: the hesitation and overshoot decisions, the
\* micro-movement and the press of click, await this.sleep(
\* this.randomDelay(min, max)), the generation of a path from (x, y) to
\* (x2, y2), and the delay of iteration i of executeMovementPath over a path
\* of length points
Hesitation == Statement("addHesitation", "", Zero, Zero, Zero, Zero, Zero, "hesitation")
Overshoot(targetX, targetY) ==
    Statement("addOvershootCorrection", "", targetX, targetY, Zero, Zero, Zero, "overshoot")
MicroMovement == Statement("microMovement", "", Zero, Zero, Zero, Zero, Zero, "microMovement")
Press(button) ==
    [Statement("press", "", Zero, Zero, Zero, Zero, Zero, "click") EXCEPT !.button = button]
RandomDelay(min, max, part) ==
    Statement("randomDelay", "", Int2Num(min), Int2Num(max), Zero, Zero, Zero, part)
PlanPath(startX, startY, endX, endY, part) ==
    Statement("generateAdvancedBezierPath", "", startX, startY, endX, endY, Zero, part)
Delay(i, length, part) ==
    Statement("calculateHumanDelay", "", Int2Num(i), Int2Num(length), Zero, Zero, Zero, part)

\* What a statement is replaced by: the event it issues (none or one), the
\* statements planned after it, and the Math.random() draws it made
Resolved(done, planned, draws) == [done |-> done, planned |-> planned, draws |-> draws]

\* moveConfig of moveToPosition (drag calls moveToPosition without options),
\* and dragConfig of drag
moveConfigOf(call) ==
    Spread(Spread(MouseMovementDefaults, MouseBezierDefaults),
           IF call.name = "drag" THEN NoOptions ELSE call.options)
dragConfigOf(call) ==
    Spread(Spread(MouseMovementDefaults,
                  [curvature |-> Num(1, 10), randomness |-> Num(5, 100)]),
           call.options)
\* The configuration a path is generated with: moveToPosition's path, the
\* corrective path of addOvershootCorrection, and drag's path
pathConfigOf(call, part) ==
    IF part = "path" THEN moveConfigOf(call)
    ELSE IF part = "correction"
    THEN Spread(moveConfigOf(call), [curvature |-> Num(1, 10), steps |-> Int2Num(5)])
    ELSE Spread(dragConfigOf(call),
                [jitterIntensity |->
                     Mul(NumOf(dragConfigOf(call), "jitterIntensity"), Num(1, 2))])
\* The factor the base speed is multiplied by to execute the path
speedFactor(part) ==
    IF part = "path" THEN Int2Num(1)
    ELSE IF part = "correction" THEN Num(7, 10) ELSE Num(15, 10)
\* The configuration executeMovementPath is called with
executeConfigOf(call, part) ==
    LET config == IF part = "dragPath" THEN dragConfigOf(call) ELSE moveConfigOf(call)
    IN  IF part = "path" THEN config
        ELSE Spread(config,
                    [baseSpeed |-> Mul(NumOf(config, "baseSpeed"), speedFactor(part))])

\* EnhancedHumanMouse.executeMovementPath: the statements of its loop over
\* the points of a path
executeMovementPath(points, part) ==
    [k \in 1..(2 * Len(points)) |->
         IF k % 2 = 1 THEN MoveMouse(points[(k + 1) \div 2].x, points[(k + 1) \div 2].y, part)
         ELSE Delay((k \div 2) - 1, Len(points), part)]
\* A path has been generated with config: its execution is planned
pathGenerated(points, config, part) ==
    Resolved(<< >>, executeMovementPath(points, part),
             (IF Truthy(config, "adaptiveSteps") THEN 1 ELSE 0) + 6 + 2 * Len(points))
\* if (delay > 0) await this.sleep(delay)
sleepFor(delay, part, draws) ==
    Resolved(IF Gt(delay, Zero) THEN <<MouseSleep(delay, part)>> ELSE << >>, << >>, draws)

\* EnhancedHumanMouse.addOvershootCorrection up to its first suspension: the
\* overshoot position, from the draws r and r + 1
overshootPosition(targetX, targetY, config, r) ==
    LET overshootDistance ==
            Mul(NumOf(config, "overshootDistance"), Add(Num(1, 2), Rand(r)))
    IN  [x |-> Add(targetX, FMul(MathCos(Rand(r + 1)), overshootDistance)),
         y |-> Add(targetY, FMul(MathSin(Rand(r + 1)), overshootDistance))]
\* EnhancedHumanMouse.addOvershootCorrection: the move to the overshoot
\* position, the pause and the corrective path
addOvershootCorrection(position, targetX, targetY) ==
    <<MoveMouse(position.x, position.y, "overshoot"),
      RandomDelay(30, 80, "overshoot"),
      PlanPath(position.x, position.y, targetX, targetY, "correction")>>

\* The statement the operation call has reached, resolved; currentPos is
\* robot.getMousePos()
resolve(statement, call, currentPos) ==
    IF statement.op \in Events THEN Resolved(<<statement>>, << >>, 0)
    ELSE IF statement.op = "addHesitation"
    THEN IF ~Truthy(moveConfigOf(call), "humanHesitation") THEN Resolved(<< >>, << >>, 0)
         ELSE IF Lt(Rand(0), NumOf(moveConfigOf(call), "hesitationChance"))
         THEN Resolved(<< >>, <<RandomDelay(200, 800, "hesitation")>>, 1)
         ELSE Resolved(<< >>, << >>, 1)
    ELSE IF statement.op = "randomDelay"
    THEN Resolved(<<MouseSleep(Int2Num(randomDelay(statement.x.n, statement.y.n, Rand(0))),
                               statement.part)>>, << >>, 1)
    ELSE IF statement.op = "generateAdvancedBezierPath"
    THEN pathGenerated(
             generateAdvancedBezierPath(statement.x, statement.y, statement.x2,
                                        statement.y2,
                                        pathConfigOf(call, statement.part), 0),
             pathConfigOf(call, statement.part), statement.part)
    ELSE IF statement.op = "calculateHumanDelay"
    THEN sleepFor(calculateHumanDelay(
                      statement.x.n, statement.y.n,
                      executeConfigOf(call, statement.part),
                      Div(statement.x, Int2Num(statement.y.n - 1)), 0),
                  statement.part,
                  IF inMiddlePhase(Div(statement.x, Int2Num(statement.y.n - 1)))
                  THEN 2 ELSE 1)
    ELSE IF statement.op = "addOvershootCorrection"
    THEN IF ~TruthyNum(NumOf(moveConfigOf(call), "overshootProbability"))
         THEN Resolved(<< >>, << >>, 0)
         ELSE IF Lt(Rand(0), NumOf(moveConfigOf(call), "overshootProbability"))
         THEN Resolved(<< >>,
                       addOvershootCorrection(
                           overshootPosition(statement.x, statement.y,
                                             moveConfigOf(call), 1),
                           statement.x, statement.y),
                       3)
         ELSE Resolved(<< >>, << >>, 1)
    ELSE IF statement.op = "microMovement"
    THEN Resolved(<< >>,
                  <<MoveMouse(Add(currentPos.x, generateJitter(Num(15, 10), Rand(0))),
                              Add(currentPos.y, generateJitter(Num(15, 10), Rand(1))),
                              "microMovement"),
                    RandomDelay(10, 40, "microMovement")>>,
                  2)
    ELSE \* press: the click duration is drawn, then the button goes down and up
         LET clickConfig == Spread(MouseClickingDefaults, call.options)
         IN  Resolved(<< >>,
                      <<MouseToggle("down", statement.button, "click"),
                        MouseSleep(Int2Num(randomDelay(clickConfig.clickDuration.min,
                                                       clickConfig.clickDuration.max,
                                                       Rand(0))), "clickDuration"),
                        MouseToggle("up", statement.button, "click")>>,
                      1)

\* EnhancedHumanMouse.moveToPosition: its statements
moveToPosition(currentPos, targetX, targetY) ==
    <<Hesitation,
      PlanPath(currentPos.x, currentPos.y, targetX, targetY, "path"),
      Overshoot(targetX, targetY),
      EngineStep("updateMovementMetrics", targetX, targetY)>>

\* Faulty variant of click: the micro-movement is made while the button is
\* held down
clickMoveWhilePressed(button, options) ==
    LET clickConfig == Spread(MouseClickingDefaults, options)
    IN  <<RandomDelay(clickConfig.preClickDelay.min, clickConfig.preClickDelay.max,
                      "preClickDelay"),
          MouseToggle("down", button, "click")>>
            \o (IF Truthy(clickConfig, "microMovementBeforeClick")
                THEN <<MicroMovement>> ELSE << >>)
            \o <<MouseToggle("up", button, "click"),
                 RandomDelay(clickConfig.postClickDelay.min, clickConfig.postClickDelay.max,
                             "postClickDelay"),
                 EngineStep("updateFatigue", Zero, Zero)>>

\* EnhancedHumanMouse.click: its statements
click(button, options) ==
    LET clickConfig == Spread(MouseClickingDefaults, options)
    IN  <<RandomDelay(clickConfig.preClickDelay.min, clickConfig.preClickDelay.max,
                      "preClickDelay")>>
            \o (IF Truthy(clickConfig, "microMovementBeforeClick")
                THEN <<MicroMovement>> ELSE << >>)
            \o <<Press(button),
                 RandomDelay(clickConfig.postClickDelay.min, clickConfig.postClickDelay.max,
                             "postClickDelay"),
                 EngineStep("updateFatigue", Zero, Zero)>>

\* EnhancedHumanMouse.drag: its statements
drag(currentPos, startX, startY, endX, endY) ==
    moveToPosition(currentPos, startX, startY)
        \o <<RandomDelay(100, 300, "drag"),
             MouseToggle("down", "left", "drag"),
             RandomDelay(50, 150, "drag"),
             PlanPath(startX, startY, endX, endY, "dragPath"),
             RandomDelay(50, 150, "drag"),
             MouseToggle("up", "left", "drag")>>

\* Faulty variant of updateMovementMetrics: the oldest record is never evicted
updateMovementMetricsNoShift(history, startPos, endPos) ==
    Append(history, [startX |-> startPos.x, startY |-> startPos.y,
                    endX |-> endPos.x, endY |-> endPos.y])

\* EnhancedHumanMouse.updateMovementMetrics: the new movementHistory
updateMovementMetrics(history, startPos, endPos) ==
    LET pushed == Append(history, [startX |-> startPos.x, startY |-> startPos.y,
                                   endX |-> endPos.x, endY |-> endPos.y])
    IN  IF Len(pushed) > MovementHistoryCap THEN Tail(pushed) ELSE pushed

\* EnhancedHumanMouse.getMovementStats (averageSpeed and lastMovementTime
\* left out)
getMovementStats ==
    [totalMovements |-> Len(movementHistory), currentFatigue |-> mouseFatigue]

\* Operations called in one behaviour
MaxOps == 2

\* Calls of the mouse engine
MouseCallOf(name, x1, y1, x2, y2, button, options) ==
    [called |-> TRUE, name |-> name, x1 |-> Int2Num(x1), y1 |-> Int2Num(y1),
     x2 |-> Int2Num(x2), y2 |-> Int2Num(y2), button |-> button, options |-> options]
MoveCalls ==
    {MouseCallOf("moveToPosition", 100, 100, 0, 0, "", NoOptions),
     MouseCallOf("moveToPosition", 103, 104, 0, 0, "", NoOptions),
     MouseCallOf("moveToPosition", 124, 132, 0, 0, "", NoOptions)}
ClickCalls ==
    {MouseCallOf("click", 0, 0, 0, 0, button, options) :
         button \in {"left", "right"},
         options \in {NoOptions, [microMovementBeforeClick |-> FALSE]}}
DragCalls == {MouseCallOf("drag", 103, 104, 124, 132, "", NoOptions)}
\* The time in ms between the return of the previous operation (or the
\* construction of the engine) and a call of click: none, or 20 s
CallGaps == {0, 20000}
AfterGap(call, gap) == [gap |-> gap] @@ call
MouseCalls ==
    {AfterGap(call, 0) : call \in MoveCalls \cup DragCalls}
        \cup {AfterGap(call, gap) : call \in ClickCalls, gap \in CallGaps}

\* Movement histories of 0, 9 and 10 completed moves
MovesAlong(n) == [i \in 1..n |-> MovementRecord(90 + i, 100, 91 + i, 100)]
MouseHistories == {MovesAlong(0), MovesAlong(9), MovesAlong(10)}
\* The draws are 0 or the largest one
MouseTapes == [1..TapeLen -> {0, RandDen - 1}]

InitMouse ==
    /\ mouseFatigue = 0
    /\ mouseIdle = 0
    /\ typingFatigue = 0
    /\ typingIdle = 0
    /\ currentWPM = TypingDefaults.wpm
    /\ movementHistory \in MouseHistories
    /\ rndTape \in MouseTapes
    /\ rndPos = 0
    /\ pathArgs = NoCall
    /\ pathPoints = << >>
    /\ pathDone = FALSE
    /\ execArgs = NoCall
    /\ execIndex = 0
    /\ execDelay = Int2Num(0)
    /\ typingHistory = << >>
    /\ typeArgs = NoCall
    /\ typePattern = << >>
    /\ typePc = "idle"
    /\ typeIndex = 0
    /\ stepLog = << >>
    /\ keyEvents = << >>
    /\ BotIdle
    /\ MouseIdle

\* moveToPosition, click or drag is called, call.gap ms after the previous
\* operation returned, and the caller awaits its promise.  A behaviour
\* calls either the mouse engine or typeText
MouseCall(call) ==
    /\ ~typeArgs.called
    /\ opStatus \in {"idle", "returned"}
    /\ opCount < MaxOps
    /\ opCall' = [currentPos |-> pointer] @@ call
    /\ opPlan' = IF call.name = "moveToPosition"
                 THEN moveToPosition(pointer, call.x1, call.y1)
                 ELSE IF call.name = "click" THEN click(call.button, call.options)
                 ELSE drag(pointer, call.x1, call.y1, call.x2, call.y2)
    /\ opIndex' = 0
    /\ opStatus' = "running"
    /\ opFailed' = FALSE
    /\ opCount' = opCount + 1
    /\ mouseIdle' = Min(MouseRestMs + 1, mouseIdle + call.gap)
    /\ typingIdle' = Min(TypingRestMs + 1, typingIdle + call.gap)
    /\ UNCHANGED <<mouseFatigue, typingFatigue, currentWPM, rndVars, pathVars, execVars,
                   typeVars, botVars, lifeVars, pointer, buttonsDown>>

\* The time a suspension of ms milliseconds adds to an idle time below limit
Slept(idle, ms, limit) == Min(limit, idle + MathFloor(ms).n)

\* The operation has reached a statement that resolves to resolved
Perform(resolved) ==
    /\ opPlan' = SubSeq(opPlan, 1, opIndex) \o resolved.done \o resolved.planned
                     \o SubSeq(opPlan, opIndex + 2, Len(opPlan))
    /\ opIndex' = opIndex + Len(resolved.done)
    /\ rndPos' = (rndPos + resolved.draws) % Len(rndTape)
    /\ LET event == IF resolved.done = << >> THEN EngineStep("", Zero, Zero)
                    ELSE resolved.done[1]
       IN  /\ pointer' = IF event.op = "moveMouse"
                         THEN [x |-> event.x, y |-> event.y] ELSE pointer
           /\ buttonsDown' =
                  IF event.op = "mouseToggle"
                  THEN IF event.arg = "down" THEN buttonsDown \cup {event.button}
                       ELSE buttonsDown \ {event.button}
                  ELSE buttonsDown
           /\ mouseIdle' =
                  IF event.op = "sleep" THEN Slept(mouseIdle, event.ms, MouseRestMs + 1)
                  ELSE IF event.op = "updateMovementMetrics" THEN 0
                  ELSE mouseIdle
           /\ typingIdle' =
                  IF event.op = "sleep" THEN Slept(typingIdle, event.ms, TypingRestMs + 1)
                  ELSE typingIdle
           /\ movementHistory' =
                  IF event.op = "updateMovementMetrics"
                  THEN updateMovementMetrics(movementHistory, opCall.currentPos,
                                             [x |-> event.x, y |-> event.y])
                  ELSE movementHistory
           /\ mouseFatigue' =
                  IF event.op = "updateFatigue" THEN updateFatigue(mouseFatigue, mouseIdle)
                  ELSE mouseFatigue

\* The operation goes through its next statement
MouseStep ==
    /\ opStatus = "running"
    /\ opIndex < Len(opPlan)
    /\ Perform(resolve(opPlan[opIndex + 1], opCall, pointer))
    /\ UNCHANGED <<typingFatigue, currentWPM, rndTape, pathArgs, pathPoints, pathDone>>
    /\ UNCHANGED <<execVars, typeVars, botVars, lifeVars, opCall, opStatus, opFailed, opCount>>

\* The operation has gone through all its statements: its promise is
\* resolved
MouseReturn ==
    /\ opStatus = "running"
    /\ opIndex = Len(opPlan)
    /\ opStatus' = "returned"
    /\ UNCHANGED <<opCall, opPlan, opIndex, opFailed, opCount, pointer, buttonsDown>>
    /\ UNCHANGED <<engineVars, rndVars, pathVars, execVars, typeVars, botVars, lifeVars>>

\* Faulty variant of reset: the movement history is kept
MouseResetCallKeepsHistory ==
    /\ ~typeArgs.called
    /\ opStatus \in {"idle", "returned"}
    /\ opCount < MaxOps
    /\ opCall' = [currentPos |-> pointer]
                     @@ MouseCallOf("reset", 0, 0, 0, 0, "", NoOptions)
    /\ opPlan' = << >>
    /\ opIndex' = 0
    /\ opStatus' = "returned"
    /\ opFailed' = FALSE
    /\ opCount' = opCount + 1
    /\ mouseFatigue' = 0
    /\ mouseIdle' = 0
    /\ UNCHANGED <<typingFatigue, typingIdle, currentWPM, movementHistory, rndVars,
                   pathArgs, pathPoints, pathDone, execVars, typeVars, botVars, lifeVars, pointer,
                   buttonsDown>>

\* EnhancedHumanMouse.reset is called: it returns without a suspension
MouseResetCall ==
    /\ ~typeArgs.called
    /\ opStatus \in {"idle", "returned"}
    /\ opCount < MaxOps
    /\ opCall' = [currentPos |-> pointer]
                     @@ MouseCallOf("reset", 0, 0, 0, 0, "", NoOptions)
    /\ opPlan' = << >>
    /\ opIndex' = 0
    /\ opStatus' = "returned"
    /\ opFailed' = FALSE
    /\ opCount' = opCount + 1
    /\ mouseFatigue' = 0
    /\ movementHistory' = << >>
    /\ mouseIdle' = 0
    /\ UNCHANGED <<typingFatigue, typingIdle, currentWPM, rndVars, pathArgs, pathPoints,
                   pathDone, execVars, typeVars, botVars, lifeVars, pointer, buttonsDown>>

NextMouse ==
    \/ \E call \in MouseCalls : MouseCall(call)
    \/ MouseStep
    \/ MouseReturn
    \/ MouseResetCall

SpecMouse == InitMouse /\ [][NextMouse]_vars

----------------------------------------------------------------------------
(* Failing input primitives.  robot.moveMouse, robot.mouseToggle,           *)
(* robot.keyTap and robot.typeString are synchronous native calls; neither  *)
(* engine has a try statement, so an exception one of them throws rejects   *)
(* the promise of the operation that called it.                             *)

\* Faulty variant of MouseThrow: the engine catches the error and goes on
\* with the next event
MouseThrowSwallowed ==
    /\ opStatus = "running"
    /\ opIndex < Len(opPlan)
    /\ IsPrimitive(opPlan[opIndex + 1])
    /\ opFailed' = TRUE
    /\ opIndex' = opIndex + 1
    /\ UNCHANGED <<opCall, opPlan, opStatus, opCount, pointer, buttonsDown>>
    /\ UNCHANGED <<engineVars, rndVars, pathVars, execVars, typeVars, botVars, lifeVars>>

\* The input primitive the mouse operation calls next throws
MouseThrow ==
    /\ opStatus = "running"
    /\ opIndex < Len(opPlan)
    /\ IsPrimitive(opPlan[opIndex + 1])
    /\ opFailed' = TRUE
    /\ opStatus' = "failed"
    /\ UNCHANGED <<opCall, opPlan, opIndex, opCount, pointer, buttonsDown>>
    /\ UNCHANGED <<engineVars, rndVars, pathVars, execVars, typeVars, botVars, lifeVars>>

\* The k-th key event of the next iteration of executeTypingPattern throws:
\* the key events before it have been issued, the iteration's fatigue update
\* and typeText's updateTypingMetrics are not reached
TypingThrow(k) ==
    /\ typePc = "executing"
    /\ typeIndex < Len(typePattern)
    /\ LET keys == KeysOf(executeTypingItem(typePattern[typeIndex + 1],
                                            typeArgs.config, 0))
       IN  /\ k <= Len(keys)
           /\ keyEvents' = keyEvents \o SubSeq(keys, 1, k - 1)
    /\ typePc' = "failed"
    /\ UNCHANGED <<engineVars, rndVars, pathVars, execVars, botVars, lifeVars, opVars>>
    /\ UNCHANGED <<typingHistory, typeArgs, typePattern, typeIndex, stepLog>>

\* typeText("Hi", { errorRate: 1 }) has generated its pattern from the draws
\* 1/4 and 2/4 and is about to execute it: both entries are errors
HiPatternEntry(char, delay, prevChar, nextChar, isWordEnd, wordLength) ==
    [character |-> char, delay |-> Int2Num(delay),
     context |-> [isCommonWord |-> FALSE, prevChar |-> prevChar, nextChar |-> nextChar,
                  character |-> char, isWordStart |-> FALSE, isWordEnd |-> isWordEnd,
                  afterPunctuation |-> FALSE, isComplexWord |-> FALSE,
                  wordLength |-> wordLength],
     shouldError |-> TRUE, shouldPause |-> FALSE, pauseDuration |-> 0]
HiPattern ==
    <<HiPatternEntry("H", 378, "", "i", FALSE, 1),
      HiPatternEntry("i", 349, "H", "", TRUE, 2)>>
InitTypingStarted ==
    /\ mouseFatigue = 0
    /\ mouseIdle = 0
    /\ typingFatigue = 0
    /\ typingIdle = 0
    /\ currentWPM = TypingDefaults.wpm
    /\ movementHistory = << >>
    /\ rndTape = <<1, 2, 0>>
    /\ rndPos = 1
    /\ pathArgs = NoCall
    /\ pathPoints = << >>
    /\ pathDone = FALSE
    /\ execArgs = NoCall
    /\ execIndex = 0
    /\ execDelay = Int2Num(0)
    /\ typingHistory = << >>
    /\ typeArgs = [called |-> TRUE, text |-> <<"H", "i">>,
                   config |-> Spread(TypingDefaults, AlwaysErrorOptions)]
    /\ typePattern = HiPattern
    /\ typePc = "executing"
    /\ typeIndex = 0
    /\ stepLog = << >>
    /\ keyEvents = << >>
    /\ BotIdle
    /\ MouseIdle

\* A call of the mouse engine is to come, or typeText is executing a pattern
InitSession ==
    \/ InitMouse
    \/ InitTypingStarted

NextFailure ==
    \/ NextMouse
    \/ MouseThrow
    \/ ExecuteTypingStep
    \/ TypeTextReturn
    \/ \E k \in 1..3 : TypingThrow(k)

SpecFailure == InitSession /\ [][NextFailure]_vars

----------------------------------------------------------------------------
(* A session: operations of the mouse engine or a typeText, and the reset   *)
(* of each engine between them.                                             *)

\* HumanTyping.reset is called after typeText has returned
TypingResetCall ==
    /\ typePc = "done"
    /\ typingFatigue' = 0
    /\ typingIdle' = 0
    /\ currentWPM' = TypingDefaults.wpm
    /\ typePc' = "reset"
    /\ UNCHANGED <<mouseFatigue, mouseIdle, movementHistory, rndVars, pathVars, execVars,
                   botVars, lifeVars, opVars>>
    /\ UNCHANGED <<typingHistory, typeArgs, typePattern, typeIndex, stepLog, keyEvents>>

NextSession ==
    \/ NextMouse
    \/ ExecuteTypingStep
    \/ TypeTextReturn
    \/ TypingResetCall

SpecSession == InitSession /\ [][NextSession]_vars

----------------------------------------------------------------------------
(* LinkedInJobBot (src/unnamed/part_000): start(), the main execution loop *)
(* with its session limits and error handlers, and the targets the action  *)
(* handlers pass to the mouse engine.  stop() runs while start() is        *)
(* suspended at an await.                                                  *)

\* The session limits the constructor reads; the session time is counted in
\* loop intervals (bot.screenshotInterval)
maxApplications == 2
maxConsecutiveErrors == 2
maxSessionTime == 3

\* The screenshot dimensions executeClick validates against
ScreenshotWidth == 3456
ScreenshotHeight == 2234

\* robot.getScreenSize()
ScreenSize == [width |-> ScreenshotWidth, height |-> ScreenshotHeight]

\* JavaScript values a decision holds where a coordinate is expected
JsNumber(n) == [type |-> "number", value |-> n]
JsString == [type |-> "string", value |-> 0]
NoValue == [type |-> "undefined", value |-> 0]
Coords(x, y) == [type |-> "object", x |-> x, y |-> y]
NoCoords == [type |-> "undefined", x |-> NoValue, y |-> NoValue]

OnScreenCoords == Coords(JsNumber(100), JsNumber(100))

\* Coordinates of a decision: missing, non-numeric, left of the screen, on
\* the screen, right of the screen
DecisionCoords ==
    {NoCoords,
     Coords(JsString, JsNumber(100)),
     Coords(JsNumber(-1), JsNumber(100)),
     OnScreenCoords,
     Coords(JsNumber(ScreenshotWidth), JsNumber(100))}

validateCoordinates(coords) ==
    IF coords.type = "undefined" \/ coords.x.type # "number" \/ coords.y.type # "number"
    THEN FALSE
    ELSE /\ coords.x.value >= 0
         /\ coords.y.value >= 0
         /\ coords.x.value < ScreenSize.width
         /\ coords.y.value < ScreenSize.height

validateCoordinatesForScreenshot(coords, maxWidth, maxHeight) ==
    IF coords.type = "undefined" \/ coords.x.type # "number" \/ coords.y.type # "number"
    THEN FALSE
    ELSE /\ coords.x.value >= 0
         /\ coords.y.value >= 0
         /\ coords.x.value < maxWidth
         /\ coords.y.value < maxHeight

\* A form field of a decision: where it is, its type, and the radio option
\* whose label matches the generated content
NoField == [coordinates |-> NoCoords, type |-> "input", option |-> NoCoords]

getFallbackDecision ==
    [action |-> "wait_and_observe", coordinates |-> NoCoords,
     start_coords |-> NoCoords, end_coords |-> NoCoords, field_info |-> NoField]

\* The decisions apiService.getNextAction answers with
Decisions ==
    {[getFallbackDecision EXCEPT !.action = action, !.coordinates = coords] :
         action \in {"click", "type", "submit_application"}, coords \in DecisionCoords}
    \cup {[getFallbackDecision EXCEPT !.action = "drag", !.start_coords = coords,
                                      !.end_coords = OnScreenCoords] :
              coords \in DecisionCoords}
    \cup {[getFallbackDecision EXCEPT !.action = "fill_form_field",
                                      !.field_info = [NoField EXCEPT !.coordinates = coords]] :
              coords \in DecisionCoords}
    \cup {[getFallbackDecision EXCEPT !.action = "fill_form_field",
                                      !.field_info = [NoField EXCEPT !.type = "radio",
                                                                     !.option = coords]] :
              coords \in DecisionCoords \ {NoCoords}}
    \cup {getFallbackDecision, [getFallbackDecision EXCEPT !.action = "emergency_stop"]}

\* Calls of the engines as the handlers make them
MouseTo(coords) == [op |-> "moveToPosition", x |-> coords.x, y |-> coords.y]
MouseClick == [op |-> "click", x |-> NoValue, y |-> NoValue]
MouseDrag(from, to) == <<[op |-> "dragFrom", x |-> from.x, y |-> from.y],
                         [op |-> "dragTo", x |-> to.x, y |-> to.y]>>
TypeTextCall == [op |-> "typeText", x |-> NoValue, y |-> NoValue]

\* What a handler did: the engine calls it made, or the error it threw
Handled(calls) == [calls |-> calls, threw |-> FALSE]
Thrown == [calls |-> << >>, threw |-> TRUE]

executeClick(coordinates) ==
    IF ~validateCoordinatesForScreenshot(coordinates, ScreenshotWidth, ScreenshotHeight)
    THEN Thrown
    ELSE Handled(<<MouseTo(coordinates), MouseClick>>)

executeTyping(coordinates) ==
    IF coordinates.type # "undefined"
    THEN Handled(<<MouseTo(coordinates), MouseClick, TypeTextCall>>)
    ELSE Handled(<<TypeTextCall>>)

executeDrag(start_coords, end_coords) ==
    IF ~validateCoordinates(start_coords) \/ ~validateCoordinates(end_coords)
    THEN Thrown
    ELSE Handled(MouseDrag(start_coords, end_coords))

executeSubmitApplication(coordinates) ==
    IF coordinates.type # "undefined" THEN executeClick(coordinates) ELSE Handled(<< >>)

handleRadioField(fieldInfo) ==
    IF fieldInfo.option.type # "undefined"
    THEN <<MouseTo(fieldInfo.option), MouseClick>>
    ELSE << >>

executeFillFormField(field_info) ==
    LET onField == IF field_info.coordinates.type # "undefined"
                   THEN <<MouseTo(field_info.coordinates), MouseClick>>
                   ELSE << >>
    IN  IF field_info.type = "radio"
        THEN Handled(onField \o handleRadioField(field_info))
        ELSE Handled(onField \o <<TypeTextCall>>)

\* executeDecision's switch
HandlerOf(d) ==
    CASE d.action = "click" -> executeClick(d.coordinates)
      [] d.action = "type" -> executeTyping(d.coordinates)
      [] d.action = "drag" -> executeDrag(d.start_coords, d.end_coords)
      [] d.action = "submit_application" -> executeSubmitApplication(d.coordinates)
      [] d.action = "fill_form_field" -> executeFillFormField(d.field_info)
      [] OTHER -> Handled(<< >>)

\* Faulty variant of shouldContinueSession: a limit stops the session only
\* once it is exceeded
shouldContinueSessionPastLimit ==
    /\ ~(sessionClock > maxSessionTime)
    /\ ~(applicationsCount > maxApplications)
    /\ ~(consecutiveErrors > maxConsecutiveErrors)

shouldContinueSession ==
    /\ ~(sessionClock > maxSessionTime)
    /\ ~(applicationsCount >= maxApplications)
    /\ ~(consecutiveErrors >= maxConsecutiveErrors)

updateMetrics(successful, success) == IF success THEN successful + 1 ELSE successful

notLife == <<engineVars, rndVars, pathVars, execVars, typeVars, botVars, opVars>>

\* The awaits start() can be suspended at
Awaits == {"initialize", "initialAnalysis", "getLLMDecision", "executeDecision",
           "handleLoopError", "sleep", "handleCriticalError", "cleanup"}

\* start() is called: it runs to the first await of initialize()
Start ==
    /\ startPc = "new"
    /\ startPc' = "initialize"
    /\ sessionClock' = 0
    /\ UNCHANGED <<startResult, isRunning, stopSignal, applicationsCount, consecutiveErrors,
                   totalActions, successfulActions, llmCalls, llmRequests, decision,
                   mouseCalls, cleanups>>
    /\ UNCHANGED notLife

\* analyzeResume() or jobTracker.initialize() throws: start() catches the
\* error and calls handleCriticalError
InitializeThrows ==
    /\ startPc = "initialize"
    /\ startPc' = "handleCriticalError"
    /\ UNCHANGED <<startResult, isRunning, stopSignal, sessionClock, applicationsCount,
                   consecutiveErrors, totalActions, successfulActions, llmCalls,
                   llmRequests, decision, mouseCalls, cleanups>>
    /\ UNCHANGED notLife

\* initialize() has the profile and the tracker and asks for the analysis of
\* the current state
InitializeAnalyses ==
    /\ startPc = "initialize"
    /\ startPc' = "initialAnalysis"
    /\ llmRequests' = llmRequests + 1
    /\ UNCHANGED <<startResult, isRunning, stopSignal, sessionClock, applicationsCount,
                   consecutiveErrors, totalActions, successfulActions, llmCalls,
                   decision, mouseCalls, cleanups>>
    /\ UNCHANGED notLife

\* initialize() returns, with the analysis or the fallback decision; start()
\* sets isRunning and calls mainExecutionLoop
InitializeReturns(answered) ==
    /\ startPc = "initialAnalysis"
    /\ llmCalls' = IF answered THEN llmCalls + 1 ELSE llmCalls
    /\ isRunning' = TRUE
    /\ startPc' = "mainExecutionLoop"
    /\ UNCHANGED <<startResult, stopSignal, sessionClock, applicationsCount,
                   consecutiveErrors, totalActions, successfulActions, llmRequests,
                   decision, mouseCalls, cleanups>>
    /\ UNCHANGED notLife

\* The loop's condition holds: the iteration asks for the next decision
LoopContinues ==
    /\ startPc = "mainExecutionLoop"
    /\ isRunning /\ shouldContinueSession
    /\ startPc' = "getLLMDecision"
    /\ llmRequests' = llmRequests + 1
    /\ UNCHANGED <<startResult, isRunning, stopSignal, sessionClock, applicationsCount,
                   consecutiveErrors, totalActions, successfulActions, llmCalls,
                   decision, mouseCalls, cleanups>>
    /\ UNCHANGED notLife

\* The loop's condition fails: mainExecutionLoop returns and start() calls
\* cleanup in its finally block
LoopCompletes ==
    /\ startPc = "mainExecutionLoop"
    /\ ~(isRunning /\ shouldContinueSession)
    /\ startPc' = "cleanup"
    /\ cleanups' = cleanups + 1
    /\ UNCHANGED <<startResult, isRunning, stopSignal, sessionClock, applicationsCount,
                   consecutiveErrors, totalActions, successfulActions, llmCalls,
                   llmRequests, decision, mouseCalls>>
    /\ UNCHANGED notLife

\* getLLMDecision returns the service's answer, or the fallback decision
\* when the service failed; the loop calls executeDecision, which counts the
\* action and awaits jobTracker.logAction
GetLLMDecisionReturns(answer, answered) ==
    /\ startPc = "getLLMDecision"
    /\ llmCalls' = IF answered THEN llmCalls + 1 ELSE llmCalls
    /\ decision' = IF answered THEN answer ELSE getFallbackDecision
    /\ totalActions' = totalActions + 1
    /\ mouseCalls' = << >>
    /\ startPc' = "executeDecision"
    /\ UNCHANGED <<startResult, isRunning, stopSignal, sessionClock, applicationsCount,
                   consecutiveErrors, successfulActions, llmRequests, cleanups>>
    /\ UNCHANGED notLife

\* The handler of the decision returns: executeDecision counts the success,
\* the loop calls updateMetrics, resets the error counter and sleeps
ExecuteDecisionReturns ==
    /\ startPc = "executeDecision"
    /\ ~HandlerOf(decision).threw
    /\ mouseCalls' = HandlerOf(decision).calls
    /\ applicationsCount' = IF decision.action = "submit_application"
                            THEN applicationsCount + 1
                            ELSE applicationsCount
    /\ isRunning' = IF decision.action = "emergency_stop" THEN FALSE ELSE isRunning
    /\ stopSignal' = IF decision.action = "emergency_stop" THEN TRUE ELSE stopSignal
    /\ successfulActions' = updateMetrics(successfulActions + 1, TRUE)
    /\ consecutiveErrors' = 0
    /\ startPc' = "sleep"
    /\ UNCHANGED <<startResult, sessionClock, totalActions, llmCalls, llmRequests,
                   decision, cleanups>>
    /\ UNCHANGED notLife

\* jobTracker.logAction or the handler's validation throws: the loop
\* catches the error and calls handleLoopError, which counts it and awaits
\* the screenshot
ExecuteDecisionThrows(logged) ==
    /\ startPc = "executeDecision"
    /\ ~logged \/ HandlerOf(decision).threw
    /\ mouseCalls' = << >>
    /\ consecutiveErrors' = consecutiveErrors + 1
    /\ startPc' = "handleLoopError"
    /\ UNCHANGED <<startResult, isRunning, stopSignal, sessionClock, applicationsCount,
                   totalActions, successfulActions, llmCalls, llmRequests, decision,
                   cleanups>>
    /\ UNCHANGED notLife

\* handleLoopError returns and the loop sleeps
HandleLoopErrorReturns ==
    /\ startPc = "handleLoopError"
    /\ startPc' = "sleep"
    /\ UNCHANGED <<startResult, isRunning, stopSignal, sessionClock, applicationsCount,
                   consecutiveErrors, totalActions, successfulActions, llmCalls,
                   llmRequests, decision, mouseCalls, cleanups>>
    /\ UNCHANGED notLife

\* screenshotManager.capture throws inside handleLoopError: the error leaves
\* the loop and start() calls handleCriticalError
HandleLoopErrorThrows ==
    /\ startPc = "handleLoopError"
    /\ startPc' = "handleCriticalError"
    /\ UNCHANGED <<startResult, isRunning, stopSignal, sessionClock, applicationsCount,
                   consecutiveErrors, totalActions, successfulActions, llmCalls,
                   llmRequests, decision, mouseCalls, cleanups>>
    /\ UNCHANGED notLife

\* sleep(loopInterval) is over and no break is taken: the loop tests its
\* condition again
SleepReturns ==
    /\ startPc = "sleep"
    /\ sessionClock' = sessionClock + 1
    /\ startPc' = "mainExecutionLoop"
    /\ UNCHANGED <<startResult, isRunning, stopSignal, applicationsCount, consecutiveErrors,
                   totalActions, successfulActions, llmCalls, llmRequests, decision,
                   mouseCalls, cleanups>>
    /\ UNCHANGED notLife

\* A break is taken and jobTracker.logEvent throws in takeHumanBreak: the
\* error leaves the loop
TakeHumanBreakThrows ==
    /\ startPc = "sleep"
    /\ sessionClock' = sessionClock + 1
    /\ startPc' = "handleCriticalError"
    /\ UNCHANGED <<startResult, isRunning, stopSignal, applicationsCount, consecutiveErrors,
                   totalActions, successfulActions, llmCalls, llmRequests, decision,
                   mouseCalls, cleanups>>
    /\ UNCHANGED notLife

\* handleCriticalError returns: start() goes on to its finally block
HandleCriticalErrorReturns ==
    /\ startPc = "handleCriticalError"
    /\ startPc' = "cleanup"
    /\ cleanups' = cleanups + 1
    /\ UNCHANGED <<startResult, isRunning, stopSignal, sessionClock, applicationsCount,
                   consecutiveErrors, totalActions, successfulActions, llmCalls,
                   llmRequests, decision, mouseCalls>>
    /\ UNCHANGED notLife

\* Faulty variant of HandleCriticalErrorThrows: start() has no finally
\* block, and an error of the catch block ends it
HandleCriticalErrorThrowsPastCleanup ==
    /\ startPc = "handleCriticalError"
    /\ startPc' = "finished"
    /\ startResult' = "rejected"
    /\ UNCHANGED <<isRunning, stopSignal, sessionClock, applicationsCount,
                   consecutiveErrors, totalActions, successfulActions, llmCalls,
                   llmRequests, decision, mouseCalls, cleanups>>
    /\ UNCHANGED notLife

\* handleCriticalError throws: the finally block runs before start()
\* rejects with the error
HandleCriticalErrorThrows ==
    /\ startPc = "handleCriticalError"
    /\ startPc' = "cleanup"
    /\ startResult' = "rejected"
    /\ cleanups' = cleanups + 1
    /\ UNCHANGED <<isRunning, stopSignal, sessionClock, applicationsCount,
                   consecutiveErrors, totalActions, successfulActions, llmCalls,
                   llmRequests, decision, mouseCalls>>
    /\ UNCHANGED notLife

\* cleanup() returns or throws, and start() with it
CleanupSettles(saved) ==
    /\ startPc = "cleanup"
    /\ startPc' = "finished"
    /\ startResult' = IF saved /\ startResult = "pending" THEN "resolved" ELSE "rejected"
    /\ UNCHANGED <<isRunning, stopSignal, sessionClock, applicationsCount,
                   consecutiveErrors, totalActions, successfulActions, llmCalls,
                   llmRequests, decision, mouseCalls, cleanups>>
    /\ UNCHANGED notLife

\* stop(), called by the signal handler of main() while start() is suspended
Stop ==
    /\ startPc \in Awaits
    /\ isRunning' = FALSE
    /\ stopSignal' = TRUE
    /\ UNCHANGED <<startPc, startResult, sessionClock, applicationsCount, consecutiveErrors,
                   totalActions, successfulActions, llmCalls, llmRequests, decision,
                   mouseCalls, cleanups>>
    /\ UNCHANGED notLife

NextLifecycle ==
    \/ Start
    \/ InitializeThrows
    \/ InitializeAnalyses
    \/ \E answered \in BOOLEAN : InitializeReturns(answered)
    \/ LoopContinues
    \/ LoopCompletes
    \/ \E answer \in Decisions, answered \in BOOLEAN : GetLLMDecisionReturns(answer, answered)
    \/ ExecuteDecisionReturns
    \/ \E logged \in BOOLEAN : ExecuteDecisionThrows(logged)
    \/ HandleLoopErrorReturns
    \/ HandleLoopErrorThrows
    \/ SleepReturns
    \/ TakeHumanBreakThrows
    \/ HandleCriticalErrorReturns
    \/ HandleCriticalErrorThrows
    \/ \E saved \in BOOLEAN : CleanupSettles(saved)
    \/ Stop

SpecLifecycle == InitBot /\ [][NextLifecycle]_vars

----------------------------------------------------------------------------
(* Properties *)

\* The configured step range of a generateAdvancedBezierPath call
StepRange(config) == (config.minSteps.n + 1)..(config.maxSteps.n + 1)
StartIsEnd == pathArgs.startX = pathArgs.endX /\ pathArgs.startY = pathArgs.endY

\* C1: for start # end and 0 < minSteps <= maxSteps, the path that
\* generateAdvancedBezierPath returns has between minSteps + 1 and
\* maxSteps + 1 points, with adaptiveSteps true or false.
C1_PathLengthInStepRange ==
    (pathDone /\ ~StartIsEnd) => Len(pathPoints) \in StepRange(pathArgs.config)

\* C2: when start equals end, generateAdvancedBezierPath returns exactly one
\* point, which is the start point with finite coordinates.
C2_DegeneratePathIsStart ==
    (pathDone /\ StartIsEnd) =>
        /\ Len(pathPoints) = 1
        /\ IsFinite(pathPoints[1].x) /\ IsFinite(pathPoints[1].y)
        /\ pathPoints[1].x = pathArgs.startX /\ pathPoints[1].y = pathArgs.startY

\* C3: in every reachable state the fatigue of the mouse engine and the
\* fatigue of the typing engine lie in [0, 1], whatever the interleaving of
\* clicks, typed characters, resets and idle periods.
C3_FatigueInUnitInterval ==
    /\ mouseFatigue \in 0..FatigueOne
    /\ typingFatigue \in 0..FatigueOne
\* Both fatigues have climbed to 1 and the mouse has then rested once
C3_Witness ==
    /\ mouseFatigue = FatigueOne - MouseRestStep
    /\ typingFatigue = FatigueOne
    /\ mouseIdle > MouseRestMs

\* C4: the pattern generateTypingPattern returns has exactly len(text)
\* entries and its i-th entry carries the i-th character of the text,
\* whatever the error and pause decisions are.
C4_PatternMatchesText ==
    typePc # "idle" =>
        /\ Len(typePattern) = Len(typeArgs.text)
        /\ \A i \in 1..Len(typePattern) : typePattern[i].character = typeArgs.text[i]
\* A pattern for "Hello, World!" with an error entry and a pause entry
C4_Witness ==
    /\ typePc # "idle"
    /\ typeArgs.text = HelloWorld
    /\ Len(typePattern) = Len(HelloWorld)
    /\ \E i \in 1..Len(typePattern) : typePattern[i].shouldError
    /\ \E i \in 1..Len(typePattern) : typePattern[i].shouldPause

\* C5: the delay calculateHumanDelay computes for a step of a path is an
\* integer of at least 1 ms, also for the single-point path, whose progress
\* is 0 / 0.
C5_DelayAtLeastOne ==
    execIndex > 0 => IsFinite(execDelay) /\ execDelay.d = 1 /\ execDelay.n >= 1
\* The only step of a single-point path has been executed
C5_Witness ==
    /\ execArgs.called
    /\ execArgs.length = 1
    /\ execIndex = 1
    /\ IsNaN(Div(Int2Num(0), Int2Num(execArgs.length - 1)))
    /\ execDelay.n >= 1

\* The item the last iteration of executeTypingPattern executed
LastItem == typePattern[typeIndex]
ErrorStepDone == typeIndex > 0 /\ LastItem.shouldError
\* The characters generateTypingError can return for char
SubstitutesOf(char) == {generateTypingError(char, Num(k, RandDen)) : k \in 0..(RandDen - 1)}
\* The events of the last iteration after its thinking pause
ErrorBody == IF LastItem.shouldPause THEN Tail(stepLog) ELSE stepLog

C7_SubstituteDiffers ==
    ErrorStepDone => ErrorBody[1].key # LastItem.character

\* Whether the call disables errors and thinking pauses
ErrorsAndPausesOff ==
    /\ typeArgs.called
    /\ typeArgs.config.errorRate = Int2Num(0)
    /\ ~typeArgs.config.thinkingPauses.enabled

\* C8: with errorRate 0 and thinking pauses disabled no pattern entry is
\* marked as error or pause (pause duration 0), and executing the pattern
\* issues exactly the characters of the text in order, one key event each,
\* with no backspace; "Hello, World!" gives 13 entries.
C8_PlainTypingWhenDisabled ==
    (ErrorsAndPausesOff /\ typePc # "idle") =>
        /\ \A i \in 1..Len(typePattern) :
               /\ ~typePattern[i].shouldError
               /\ ~typePattern[i].shouldPause
               /\ typePattern[i].pauseDuration = 0
        /\ keyEvents = [i \in 1..typeIndex |->
                            typeCharacter(typeArgs.text[i], Int2Num(0))[1]]
        /\ typePc = "done" => Len(keyEvents) = Len(typeArgs.text)
        /\ typeArgs.text = HelloWorld => Len(typePattern) = 13
\* "Hello, World!" has been typed with errors and pauses disabled
C8_Witness ==
    /\ ErrorsAndPausesOff
    /\ typeArgs.text = HelloWorld
    /\ typePc = "done"
    /\ Len(keyEvents) = 13

Rested(fatigue, step) == Max(0, fatigue - step)
Tired(fatigue, step) == Min(FatigueOne, fatigue + step)

\* C10 as stated: an update with idle time >= the rest threshold, the
\* threshold included, decrements the fatigue; a shorter idle time
\* increments it.
C10_RestAtThreshold ==
    [][/\ Click => mouseFatigue' =
                      IF mouseIdle >= MouseRestMs
                      THEN Rested(mouseFatigue, MouseRestStep)
                      ELSE Tired(mouseFatigue, MouseFatigueStep)
       /\ TypeCharacterStep => typingFatigue' =
                      IF typingIdle >= TypingRestMs
                      THEN Rested(typingFatigue, TypingRestStep)
                      ELSE Tired(typingFatigue, TypingFatigueStep)]_vars
\* C10: an update with idle time strictly above the rest threshold (30000
\* ms mouse, 60000 ms typing) decrements the fatigue by 0.1, floored at 0; an
\* update with idle time up to and including the threshold increments it by
\* 0.02 (mouse) or 0.005 (typing), capped at 1.
C10_RestAboveThreshold ==
    [][/\ Click => mouseFatigue' =
                      IF mouseIdle > MouseRestMs
                      THEN Rested(mouseFatigue, MouseRestStep)
                      ELSE Tired(mouseFatigue, MouseFatigueStep)
       /\ TypeCharacterStep => typingFatigue' =
                      IF typingIdle > TypingRestMs
                      THEN Rested(typingFatigue, TypingRestStep)
                      ELSE Tired(typingFatigue, TypingFatigueStep)]_vars
\* A click after exactly 30000 ms of idle time has incremented the fatigue
C10_Witness ==
    /\ mouseIdle = MouseRestMs
    /\ mouseFatigue = 2 * MouseFatigueStep
    /\ typingFatigue = 0

\* C11: when every engine operation is awaited before the next is called,
\* the input primitives of two operations never interleave: between two
\* primitives of one operation no primitive of another operation is issued.
C11_NoInterleaving ==
    \A i, j, k \in 1..Len(primLog) :
        (i < j /\ j < k /\ primLog[i].id = primLog[k].id) => primLog[j].id = primLog[i].id
\* executeTyping has run moveToPosition, click and typeText, each with two
\* primitives
C11_Witness ==
    /\ botHandler = "executeTyping"
    /\ Len(primLog) >= 6
    /\ \E i \in 1..Len(primLog) : primLog[i].name = "typeText"
    /\ \E i \in 1..(Len(primLog) - 1) :
           primLog[i].id = primLog[i + 1].id /\ primLog[i].name = "moveToPosition"

\* C12: when an input primitive throws during moveToPosition, click, drag
\* or typeText, the operation ends with the error (it is not swallowed), the
\* primitive that threw is not issued again and no later event of the
\* operation is issued: the pointer, the buttons and the key events stay as
\* the failure left them.
C12_FailurePropagates ==
    /\ [](opFailed => opStatus = "failed")
    /\ [][opStatus = "failed" =>
              /\ opStatus' = "failed"
              /\ opIndex' = opIndex
              /\ pointer' = pointer
              /\ buttonsDown' = buttonsDown]_vars
    /\ [][typePc = "failed" =>
              /\ typePc' = "failed"
              /\ typeIndex' = typeIndex
              /\ keyEvents' = keyEvents]_vars
\* The buttonUp of a click has thrown, leaving events of the click unissued
C12_Witness ==
    /\ opStatus = "failed"
    /\ opCall.name = "click"
    /\ opPlan[opIndex + 1] = MouseToggle("up", opCall.button, "click")
    /\ opIndex + 1 < Len(opPlan)
    /\ buttonsDown = {opCall.button}

\* The events the running operation has issued so far, each as its kind:
\* operation, argument, button and place
EventKind(event) == <<event.op, event.arg, event.button, event.part>>
EventsIssued == [i \in 1..opIndex |-> EventKind(opPlan[i])]
\* The order of the events of click(button), with or without micro-movement
ClickOrder(button, micro) ==
    <<<<"sleep", "", "", "preClickDelay">>>>
        \o (IF micro THEN <<<<"moveMouse", "", "", "microMovement">>,
                             <<"sleep", "", "", "microMovement">>>>
            ELSE << >>)
        \o <<<<"mouseToggle", "down", button, "click">>,
             <<"sleep", "", "", "clickDuration">>,
             <<"mouseToggle", "up", button, "click">>,
             <<"sleep", "", "", "postClickDelay">>,
             <<"updateFatigue", "", "", "">>>>
\* C13: the events of click(button) are issued in the order pre-click delay,
\* micro-movement of the pointer (only with microMovementBeforeClick),
\* buttonDown(button), press-hold delay, buttonUp(button), post-click delay,
\* fatigue update: at every moment the events issued are a prefix of that
\* order, at the return they are all of it, and the button is up.
C13_ClickOrder ==
    (opCall.called /\ opCall.name = "click" /\ opStatus \in {"running", "returned"}) =>
        LET order == ClickOrder(opCall.button,
                                Truthy(Spread(MouseClickingDefaults, opCall.options),
                                       "microMovementBeforeClick"))
        IN  /\ opIndex <= Len(order)
            /\ EventsIssued = SubSeq(order, 1, opIndex)
            /\ opStatus = "returned" =>
                   /\ opIndex = Len(order)
                   /\ opCall.button \notin buttonsDown
\* A click of the right button with a micro-movement that moved the pointer
\* has returned
C13_Witness ==
    /\ opCall.called
    /\ opCall.name = "click"
    /\ opCall.button = "right"
    /\ opStatus = "returned"
    /\ opIndex = 8
    /\ opPlan[2].op = "moveMouse"
    /\ [x |-> opPlan[2].x, y |-> opPlan[2].y] # PathStart

\* |x - targetX| <= tolerance and |y - targetY| <= tolerance
WithinJitter(x, y, targetX, targetY, tolerance) ==
    /\ Le(Sub(x, targetX), tolerance) /\ Le(Sub(targetX, x), tolerance)
    /\ Le(Sub(y, targetY), tolerance) /\ Le(Sub(targetY, y), tolerance)
\* The places in the events issued of the pointer moves of a part of the
\* operation, of the button events, and of the end of moveToPosition
MovesOf(parts) ==
    {i \in 1..opIndex : opPlan[i].op = "moveMouse" /\ opPlan[i].part \in parts}
TogglesOf(down) ==
    {i \in 1..opIndex : opPlan[i].op = "mouseToggle" /\ opPlan[i].arg = down}
MoveCompleted == {i \in 1..opIndex : opPlan[i].op = "updateMovementMetrics"}
SetMax(S) == CHOOSE i \in S : \A j \in S : j <= i
\* The tolerance of a pointer position issued for a path point: the jitter
\* intensity of the configuration and the rounding of moveMouse
JitterTolerance(call) ==
    Add(NumOf(moveConfigOf(call), "jitterIntensity"), Num(1, 2))
\* C14: a drag(x1, y1, x2, y2) with the default configuration that has
\* returned first completed a move to (x1, y1), then issued exactly one
\* buttonDown, then moved the pointer along a path whose points have
\* well-defined coordinates and whose last point is within jitter tolerance
\* of (x2, y2), then issued exactly one buttonUp; every move of the drag path
\* lies between the buttonDown and the buttonUp.
C14_DragDefault ==
    (opCall.called /\ opCall.name = "drag" /\ opCall.options = NoOptions
         /\ opStatus = "returned") =>
        /\ Cardinality(TogglesOf("down")) = 1
        /\ Cardinality(TogglesOf("up")) = 1
        /\ Cardinality(MoveCompleted) = 1
        /\ \A m \in MoveCompleted : \A d \in TogglesOf("down") : \A u \in TogglesOf("up") :
               /\ opPlan[m].x = opCall.x1 /\ opPlan[m].y = opCall.y1
               /\ m < d /\ d < u
               /\ \A i \in MovesOf({"path", "overshoot", "correction"}) : i < m
               /\ \A i \in MovesOf({"dragPath"}) : d < i /\ i < u
        /\ MovesOf({"dragPath"}) # {}
        /\ \A i \in MovesOf({"dragPath"}) : IsFinite(opPlan[i].x) /\ IsFinite(opPlan[i].y)
        /\ LET last == opPlan[SetMax(MovesOf({"dragPath"}))]
           IN  WithinJitter(last.x, last.y, opCall.x2, opCall.y2, JitterTolerance(opCall))
\* The order of the events alone, which the drag keeps
C14_DragOrderOnly ==
    (opCall.called /\ opCall.name = "drag" /\ opStatus = "returned") =>
        /\ Cardinality(TogglesOf("down")) = 1
        /\ Cardinality(TogglesOf("up")) = 1
        /\ \A m \in MoveCompleted : \A d \in TogglesOf("down") : \A u \in TogglesOf("up") :
               /\ m < d /\ d < u
               /\ \A i \in MovesOf({"path", "overshoot", "correction"}) : i < m
               /\ \A i \in MovesOf({"dragPath"}) : d < i /\ i < u
        /\ MovesOf({"dragPath"}) # {}

\* The overshoot relocation comes after every move of the nominal path and
\* before a corrective path
OvershootOrder ==
    \A o \in MovesOf({"overshoot"}) :
        /\ \A i \in MovesOf({"path"}) : i < o
        /\ MovesOf({"correction"}) # {}
        /\ \A i \in MovesOf({"correction"}) : o < i
\* The last pointer position issued is within jitter tolerance of the target
EndsAtTarget ==
    /\ MovesOf({"path", "overshoot", "correction"}) # {}
    /\ LET last == opPlan[SetMax(MovesOf({"path", "overshoot", "correction"}))]
       IN  WithinJitter(last.x, last.y, opCall.x1, opCall.y1, JitterTolerance(opCall))
\* C15: in a moveToPosition that has returned, the overshoot relocation was
\* issued only after every point of the nominal path, it was followed by a
\* corrective path, and with or without an overshoot the last pointer
\* position issued is within jitter tolerance of the requested target.
C15_MoveEndsAtTarget ==
    (opCall.called /\ opCall.name = "moveToPosition" /\ opStatus = "returned") =>
        OvershootOrder /\ EndsAtTarget
\* The same for a move whose target is not the position of the pointer at the
\* call, which holds
C15_MoveElsewhereEndsAtTarget ==
    (opCall.called /\ opCall.name = "moveToPosition" /\ opStatus = "returned"
         /\ IsFinite(opCall.currentPos.x) /\ IsFinite(opCall.currentPos.y)
         /\ ~(opCall.currentPos.x = opCall.x1 /\ opCall.currentPos.y = opCall.y1)) =>
        OvershootOrder /\ EndsAtTarget

\* C16: for start # end the path that generateAdvancedBezierPath returns has a
\* first point within jitterIntensity of the start in each coordinate and a
\* last point within jitterIntensity of the end in each coordinate, whatever
\* the control points, the fatigue and the movement history.
C16_PathEndpoints ==
    (pathDone /\ ~StartIsEnd) =>
        /\ Len(pathPoints) >= 1
        /\ WithinJitter(pathPoints[1].x, pathPoints[1].y, pathArgs.startX, pathArgs.startY,
                        NumOf(pathArgs.config, "jitterIntensity"))
        /\ WithinJitter(pathPoints[Len(pathPoints)].x, pathPoints[Len(pathPoints)].y,
                        pathArgs.endX, pathArgs.endY,
                        NumOf(pathArgs.config, "jitterIntensity"))
\* The same for a path of at least one step (two points), which holds
C16_EndpointsOfSteps ==
    (pathDone /\ ~StartIsEnd /\ Len(pathPoints) >= 2) =>
        /\ WithinJitter(pathPoints[1].x, pathPoints[1].y, pathArgs.startX, pathArgs.startY,
                        NumOf(pathArgs.config, "jitterIntensity"))
        /\ WithinJitter(pathPoints[Len(pathPoints)].x, pathPoints[Len(pathPoints)].y,
                        pathArgs.endX, pathArgs.endY,
                        NumOf(pathArgs.config, "jitterIntensity"))
\* The same with the default configuration, which holds as well
C16_EndpointsByDefault ==
    (pathArgs.called
         /\ pathArgs.config = Spread(MouseMovementDefaults, MouseBezierDefaults)) =>
        C16_PathEndpoints

\* The record of the move of the running operation, and the most recent
\* MovementHistoryCap records of a history
RecordOfMove ==
    [startX |-> opCall.currentPos.x, startY |-> opCall.currentPos.y,
     endX |-> opCall.x1, endY |-> opCall.y1]
MostRecent(history) ==
    IF Len(history) <= MovementHistoryCap THEN history
    ELSE SubSeq(history, Len(history) - MovementHistoryCap + 1, Len(history))
\* The step completes the movement of moveToPosition
MoveCompletes ==
    /\ opStatus = "running"
    /\ opIndex' = opIndex + 1
    /\ opPlan'[opIndex'].op = "updateMovementMetrics"
\* C17: the step that completes a moveToPosition appends one record to the
\* movement history, with the pointer position read at the call as start and
\* the requested target as end, and evicts the oldest record beyond 10, so a
\* history of n completed moves holds the min(n, 10) most recent ones in
\* completion order; no other step of an operation changes the history, and
\* a moveToPosition that has returned has completed exactly one movement.
C17_HistoryRing ==
    /\ [][IF MoveCompletes
          THEN /\ movementHistory' = MostRecent(Append(movementHistory, RecordOfMove))
               /\ Len(movementHistory') = Min(Len(movementHistory) + 1, MovementHistoryCap)
          ELSE (opCall'.called /\ opCall'.name # "reset") =>
                   movementHistory' = movementHistory]_vars
    /\ []((opCall.called /\ opCall.name = "moveToPosition" /\ opStatus = "returned") =>
              /\ Cardinality(MoveCompleted) = 1
              /\ MoveCompleted = {opIndex})
\* A moveToPosition made after 10 completed moves has returned: its record
\* is the newest and the oldest record has been evicted
C17_Witness ==
    /\ opCall.called
    /\ opCall.name = "moveToPosition"
    /\ opStatus = "returned"
    /\ opCount = 1
    /\ Len(movementHistory) = MovementHistoryCap
    /\ movementHistory[MovementHistoryCap] = RecordOfMove
    /\ movementHistory[1] = MovesAlong(MovementHistoryCap)[2]

\* C18: after reset() of the mouse engine the fatigue is 0 and the movement
\* history is empty (getMovementStats reports totalMovements 0 and
\* currentFatigue 0), and after reset() of the typing engine the fatigue is 0
\* and currentWPM is the configured typing.wpm.
C18_ResetClears ==
    /\ (opCall.called /\ opCall.name = "reset" /\ opStatus = "returned") =>
           /\ mouseFatigue = 0
           /\ movementHistory = << >>
           /\ getMovementStats.totalMovements = 0
           /\ getMovementStats.currentFatigue = 0
    /\ typePc = "reset" =>
           /\ typingFatigue = 0
           /\ currentWPM = TypingDefaults.wpm
\* The typing engine has been reset after a typeText of two characters, each
\* of which raised the fatigue
C18_Witness ==
    /\ typePc = "reset"
    /\ typeIndex = 2
    /\ Len(typingHistory) = 1
    /\ Len(keyEvents) >= 2
    /\ typingFatigue = 0

\* C19: a typeText of the empty string generates an empty pattern, issues no
\* key event, no backspace and no delay, and once the pattern is generated
\* nothing is left to execute before it returns.
C19_EmptyText ==
    (typeArgs.called /\ typeArgs.text = << >>) =>
        /\ typePc \in {"idle", "executing", "done"}
        /\ typePattern = << >>
        /\ keyEvents = << >>
        /\ stepLog = << >>
        /\ typePc = "executing" => typeIndex = Len(typePattern)
        /\ typePc = "done" => Len(typingHistory) = 1
\* typeText("") has returned
C19_Witness ==
    /\ typeArgs.called
    /\ typeArgs.text = << >>
    /\ typePc = "done"
    /\ typePattern = << >>
    /\ keyEvents = << >>
    /\ Len(typingHistory) = 1

\* The operation is about to compute the delay of a step of the path of part
AtDelayOf(part) ==
    /\ opStatus = "running"
    /\ opIndex < Len(opPlan)
    /\ opPlan[opIndex + 1].op = "calculateHumanDelay"
    /\ opPlan[opIndex + 1].part = part
\* The delay of that step with the configuration config, from the draws the
\* step makes
DelayWith(config) ==
    LET statement == opPlan[opIndex + 1]
    IN  calculateHumanDelay(statement.x.n, statement.y.n, config,
                            Div(statement.x, Int2Num(statement.y.n - 1)), 0)
\* C20: the corrective path after an overshoot runs at reduced speed: the
\* delay of each of its steps is at least the delay the nominal path would
\* use for the same step position, fatigue and random factors.
C20_CorrectionSlower ==
    AtDelayOf("correction") =>
        Ge(DelayWith(executeConfigOf(opCall, "correction")), DelayWith(moveConfigOf(opCall)))
\* The delay of each step of a drag path is at least the nominal one, which
\* holds
C20_DragSlower ==
    AtDelayOf("dragPath") =>
        Ge(DelayWith(executeConfigOf(opCall, "dragPath")), DelayWith(moveConfigOf(opCall)))

\* A text with a character of a word (a letter or a digit)
HasWordCharacter(text) == \E i \in 1..Len(text) : text[i] \in WordChars
\* C21: every delay stored in the typing pattern of a non-empty text is a
\* well-defined number of at least 1 ms, for every fatigue and every draw.
C21_PatternDelays ==
    (typeArgs.called /\ typePc # "idle" /\ typeArgs.text # << >>) =>
        \A i \in 1..Len(typePattern) :
            IsFinite(typePattern[i].delay) /\ Ge(typePattern[i].delay, Int2Num(1))
\* The same for a text with at least one letter or digit, which holds
C21_DelaysOfWords ==
    (typeArgs.called /\ typePc # "idle" /\ HasWordCharacter(typeArgs.text)) =>
        \A i \in 1..Len(typePattern) :
            IsFinite(typePattern[i].delay) /\ Ge(typePattern[i].delay, Int2Num(1))

\* The whole word that contains text[i]: the longest run of word characters
\* around it, empty when text[i] is no word character
RECURSIVE wordEnd(_, _)
wordEnd(text, i) ==
    IF i <= Len(text) /\ text[i] \in WordChars THEN wordEnd(text, i + 1) ELSE i - 1
WholeWordAt(text, i) ==
    IF text[i] \in WordChars THEN SubSeq(text, wordStart(text, i), wordEnd(text, i))
    ELSE << >>
\* C22: the word-context flags of a character position are those of the
\* whole word that contains it: isComplexWord is true for every character of
\* a word longer than 8 characters, and isCommonWord is true exactly when the
\* whole word is a common word.
C22_WholeWordFlags ==
    (typeArgs.called /\ typePc # "idle") =>
        \A i \in 1..Len(typePattern) :
            LET word == WholeWordAt(typeArgs.text, i)
                context == typePattern[i].context
            IN  /\ Len(word) > 8 => context.isComplexWord
                /\ context.isCommonWord <=> isCommonWord(word)
\* The same for the last character of each word, which holds
C22_FlagsAtWordEnd ==
    (typeArgs.called /\ typePc # "idle") =>
        \A i \in 1..Len(typePattern) :
            LET word == WholeWordAt(typeArgs.text, i)
                context == typePattern[i].context
            IN  (word = << >> \/ wordEnd(typeArgs.text, i) = i) =>
                    /\ context.isComplexWord <=> Len(word) > 8
                    /\ context.isCommonWord <=> isCommonWord(word)

\* The progress of step i of the path executeMovementPath was called with,
\* and the steps of its middle phase
ProgressOf(step) == Div(Int2Num(step), Int2Num(execArgs.length - 1))
MiddleSteps == {step \in 0..(execArgs.length - 1) : inMiddlePhase(ProgressOf(step))}
\* The delay of a step of that path; a step of the middle phase draws its
\* speed variation first, so its random variation is the draw after it
DelayOfStep(step) ==
    calculateHumanDelay(step, execArgs.length, execArgs.config, ProgressOf(step),
                        IF step \in MiddleSteps THEN 0 ELSE 1)
\* C23: with the fatigue and the random variation held equal, the delay of
\* the first step (progress 0) and of the last step (progress 1) of a path
\* that has been executed is not smaller than the delay of a step of its
\* middle phase.
C23_SlowStartAndEnd ==
    (execArgs.called /\ execArgs.length >= 3 /\ execIndex = execArgs.length) =>
        \A step \in MiddleSteps :
            /\ Ge(DelayOfStep(0), DelayOfStep(step))
            /\ Ge(DelayOfStep(execArgs.length - 1), DelayOfStep(step))
\* The opposite order, which holds: the first and the last step are the
\* shortest
C23_FastStartAndEnd ==
    (execArgs.called /\ execArgs.length >= 3 /\ execIndex = execArgs.length) =>
        \A step \in MiddleSteps :
            /\ Le(DelayOfStep(0), DelayOfStep(step))
            /\ Le(DelayOfStep(execArgs.length - 1), DelayOfStep(step))

\* The step is the fatigue update of a click
ClickUpdatesFatigue ==
    /\ opStatus = "running"
    /\ opCall.name = "click"
    /\ opIndex' = opIndex + 1
    /\ opPlan'[opIndex'].op = "updateFatigue"
\* C24: a click that starts less than the rest threshold after the previous
\* mouse action ended does not decrease the fatigue, whether or not a
\* moveToPosition came before it.
C24_ClicksRaiseFatigue ==
    [][(ClickUpdatesFatigue /\ opCall.gap < MouseRestMs) =>
           mouseFatigue' >= mouseFatigue]_vars
\* The same for a click whose fatigue update comes less than the rest
\* threshold after the last completed moveToPosition (or the construction),
\* which holds
C24_ClicksAfterMoveRaiseFatigue ==
    [][(ClickUpdatesFatigue /\ mouseIdle <= MouseRestMs) =>
           mouseFatigue' >= mouseFatigue]_vars

\* The time the execution of a pattern without errors suspends for: the
\* thinking pauses and the delays of its items
RECURSIVE TimeToType(_, _)
TimeToType(pattern, config) ==
    IF pattern = << >> THEN Int2Num(0)
    ELSE Add(SleepTotal(executeTypingItem(pattern[1], config, 0)),
             TimeToType(Tail(pattern), config))
\* C30: the duration recorded in the typing history for a typeText call is
\* the time elapsed between the start and the end of the call, i.e. the sum
\* of the pauses and delays executed for the text.
C30_DurationIsTypingTime ==
    (typeArgs.called /\ typePc = "done"
         /\ \A i \in 1..Len(typePattern) : ~typePattern[i].shouldError) =>
        Int2Num(typingHistory[Len(typingHistory)].duration)
            = MathFloor(TimeToType(typePattern, typeArgs.config))
\* What is recorded for a non-empty text: no time at all
C30_DurationIsZero ==
    (typeArgs.called /\ typePc = "done" /\ typePattern # << >>) =>
        typingHistory[Len(typingHistory)].duration = 0

\* C25: once stop() has been called after start() began, or an
\* emergency_stop decision has been executed, no new LLM decision is
\* requested and no new action is executed
C25_StopEndsLoop ==
    [][stopSignal => (llmRequests' = llmRequests /\ totalActions' = totalActions)]_vars

\* While isRunning is false inside the loop, no new LLM decision is requested
C25_StoppedLoopRequestsNothing ==
    [][(~isRunning /\ startPc \in {"mainExecutionLoop", "getLLMDecision",
                                      "executeDecision", "handleLoopError", "sleep"})
           => llmRequests' = llmRequests]_vars

\* metrics.successfulActions / Math.max(1, metrics.totalActions), as a
\* fraction
success_rate == Div(Int2Num(successfulActions), Int2Num(Max(1, totalActions)))

\* C26: in every reachable state successfulActions <= totalActions, and the
\* success rate of the session context and summary lies in [0, 1]
C26_SuccessRateInUnitInterval ==
    /\ successfulActions <= totalActions
    /\ Ge(success_rate, Int2Num(0))
    /\ Le(success_rate, Int2Num(1))

\* Every successful action is counted twice
C26_SuccessCountedTwice == successfulActions <= 2 * totalActions

\* A limit of the session is reached
LimitReached ==
    applicationsCount >= maxApplications \/ consecutiveErrors >= maxConsecutiveErrors

\* C27: applicationsCount never exceeds maxApplications and
\* consecutiveErrors never exceeds the error threshold; an iteration whose
\* action succeeds resets consecutiveErrors to 0; and once a limit is
\* reached no further decision is requested or executed
C27_SessionLimits ==
    /\ [](applicationsCount <= maxApplications /\ consecutiveErrors <= maxConsecutiveErrors)
    /\ [][successfulActions' # successfulActions => consecutiveErrors' = 0]_vars
    /\ [][LimitReached => (llmRequests' = llmRequests /\ totalActions' = totalActions)]_vars

\* The session has ended at its application limit, after an action that
\* submitted nothing
C27_Witness ==
    /\ startPc = "finished"
    /\ applicationsCount = maxApplications
    /\ totalActions > maxApplications
    /\ consecutiveErrors = 0

\* A coordinate value is a number inside the screen
OnScreen(x, y) ==
    /\ x.type = "number" /\ y.type = "number"
    /\ x.value >= 0 /\ x.value < ScreenSize.width
    /\ y.value >= 0 /\ y.value < ScreenSize.height

\* C28: every target an action handler passes to the mouse engine has
\* passed the screen-bounds validation; a decision with missing,
\* non-numeric or off-screen coordinates moves and clicks nothing
C28_TargetsValidated ==
    \A i \in 1..Len(mouseCalls) :
        mouseCalls[i].op \in {"moveToPosition", "dragFrom", "dragTo"}
            => OnScreen(mouseCalls[i].x, mouseCalls[i].y)

\* The targets of click and drag decisions are on the screen
C28_ClickAndDragValidated ==
    (decision # NoCall /\ decision.action \in {"click", "drag", "submit_application"})
        => \A i \in 1..Len(mouseCalls) :
               mouseCalls[i].op \in {"moveToPosition", "dragFrom", "dragTo"}
                   => OnScreen(mouseCalls[i].x, mouseCalls[i].y)

\* C29: whenever start() finishes, cleanup() has been invoked exactly once,
\* and no action is executed after it was invoked
C29_CleanupOnce ==
    /\ [](startPc = "finished" => cleanups = 1)
    /\ [][cleanups > 0 => totalActions' = totalActions]_vars

\* start() has rejected with the error of handleCriticalError, after actions
\* were executed
C29_Witness ==
    /\ startPc = "finished"
    /\ startResult = "rejected"
    /\ totalActions > 0
    /\ cleanups = 1

====
